---- MODULE Spec2Model ----
(***************************************************************************)
(* NetSpec: the alert engine (dedup, flap detection, escalation timers),   *)
(* the desired-state evaluator and the update task that joins them, the    *)
(* gNMI collector with its connection, receive and update tasks, and the   *)
(* supervisor's configuration reload.                                      *)
(*                                                                         *)
(* Time is discrete.  One time unit stands for 30 s, the period of the     *)
(* engine's flap sweep ticker; windows and delays are configuration values *)
(* expressed in that unit.  Map keys that the code builds with             *)
(* fmt.Sprintf("%s|%s|%s", ...) are modelled as tuples of the same parts.  *)
(***************************************************************************)
EXTENDS Integers, Sequences, FiniteSets, TLC

(***************************************************************************)
(* Bounds of the model.                                                    *)
(***************************************************************************)
MaxTime == 3
MaxEvents == 4
MaxQueue == 1
MaxNotifications == 4
MaxReloads == 1
MaxSent == 2
MaxLosses == 1
MaxUpdates == 1
MaxAttempts == 70
MaxSamples == 6
MaxResolves == 2
MaxMixed == 2
MaxRequests == 2

(***************************************************************************)
(* Configuration values (alerts.yaml) and the code's constants.            *)
(***************************************************************************)
FlapThreshold == 3
FlapWindow == 2
DedupWindow == 3
SweepPeriod == 1
EscalationDelay == 1
ErrorsBuffer == 1
InitialReconnectDelay == 5
MaxReconnectDelay == 120

VARIABLES
    activeAlerts,   \* Engine.activeAlerts: key -> Alert
    lastFired,      \* Engine.lastFired: key -> time of the last fire
    history,        \* FlapDetector.history: entity key -> timestamps
    flapping,       \* FlapDetector.flapping: set of entity keys marked true
    timers,         \* EscalationManager.timers: key -> id of the cancel handle
    timerProcs,     \* escalation goroutines that have not returned
    nextTimer,      \* id of the next context/goroutine
    events,         \* Engine.events: the buffered channel
    offered,        \* number of events offered to the channel so far
    sink,           \* calls of Notifier.SendAlert, in order
    escalations,    \* calls of EscalationManager.onEscalate, in order
    lastChange,     \* entity key -> time of its last RecordChange (history variable)
    now,            \* the clock
    sweepPc,        \* position of the ticker goroutine of Engine.Run
    nextSweep,      \* time of the next tick of the 30 s ticker
    lastSweep,      \* time of the last completed sweep (history variable)
    flapEnabled,    \* cfg.Alerts.AlertBehavior.FlapDetection.Enabled
    channelCfg,     \* cfg.Alerts.Channels: name -> ChannelConfig
    sinkUp,         \* whether Notifier.SendAlert returns without an error
    desired,        \* Evaluator.config: the device's interface intents
    stateCache,     \* Evaluator.stateCache: cache key -> interfaceState
    pending,        \* StateChanges the update task has still to forward
    fed,            \* updates evaluated so far, in order (history variable)
    dropped,        \* events ProcessStateChange dropped (history variable)
    collectors,     \* main's collectors map: device name -> collector
    cols,           \* every Collector created so far, with its three tasks
    configDir,      \* what config.LoadConfigDir finds in the directory
    apiConfig,      \* Server.config: the devices of the configuration in use
    reloads,        \* calls of the reload function so far
    lastReload,     \* outcome of the last call of the reload function
    reachable,      \* whether the device accepts connections
    sent,           \* notifications the device has streamed so far
    losses,         \* streams the device or the network has broken so far
    lastReceived,   \* per device, the notification received last (history)
    chanDropped,    \* notifications handleNotification dropped (history)
    evaluated,      \* device and number of each notification evaluated
    engineLoops,    \* goroutines running the loop of Engine.Run
    sweepTasks,     \* ticker goroutines started by Engine.Run
    attempt,        \* Connect's attempt counter in a retry loop on its own
    backoff,        \* the delay backoffDuration returned last, as an int64
    held,           \* events a loop has received and not yet processed
    takes,          \* receives from Engine.events so far
    processed,      \* events processed, each with its receive number, in order
    stopped,        \* whether Engine.Stop has run: close(e.events)
    panicked,       \* whether a goroutine has panicked, which ends the process
    resolveCalls,   \* arguments of the calls of Engine.ResolveAlert, in order
    reloading,      \* per request of POST /api/reload: where its call is
    shutdown        \* main after the signal: its loop over the collectors

vars == <<activeAlerts, lastFired, history, flapping, timers, timerProcs,
          nextTimer, events, offered, sink, escalations, lastChange, now,
          sweepPc, nextSweep, lastSweep, flapEnabled, channelCfg, desired,
          sinkUp,
          stateCache, pending, fed, dropped, collectors, cols, configDir,
          apiConfig, reloads, lastReload, reachable, sent, losses,
          lastReceived, chanDropped, evaluated, engineLoops, sweepTasks,
          held, takes, processed, attempt, backoff, stopped, panicked,
          resolveCalls, reloading, shutdown>>

engineVars == <<activeAlerts, lastFired, history, flapping, timers,
                timerProcs, nextTimer, sink, escalations, lastChange>>

\* What the engine and the evaluator are given: the configuration, and the
\* sink behind the notifier.
cfgVars == <<flapEnabled, channelCfg, desired, sinkUp>>

evalVars == <<stateCache, pending, fed, dropped>>

\* The calls of Engine.Stop and Engine.ResolveAlert so far, and what
\* follows from them.
requestVars == <<reloading, shutdown>>

callVars == <<stopped, panicked, resolveCalls, requestVars>>

\* The supervisor of main: the reload function and the collectors.
reloadVars == <<collectors, configDir, apiConfig, reloads, lastReload>>

supVars == <<cols, reloadVars>>

\* The device and the network.
deviceVars == <<reachable, sent, losses, lastReceived, chanDropped, evaluated>>

\* The goroutines started by Engine.Run.
loopVars == <<engineLoops, sweepTasks, held, takes, processed>>

\* The retry loop of Collector.Connect taken alone.
retryVars == <<attempt, backoff>>

mainVars == <<supVars, deviceVars, loopVars, retryVars>>

(***************************************************************************)
(* Go maps.                                                                *)
(***************************************************************************)
EmptyMap == [x \in {} |-> 0]

Put(m, k, v) == [x \in (DOMAIN m) \cup {k} |-> IF x = k THEN v ELSE m[x]]

Del(m, k) == [x \in (DOMAIN m) \ {k} |-> m[x]]

(***************************************************************************)
(* Configuration: one device, alert routing as in Scenario F.              *)
(***************************************************************************)
DeviceName == "d1"

Entities == {"Gi1/0/1"}

Kinds == {"interface_state_mismatch", "interface_admin_down"}

FlapKind == "flapping_detected"

NoTime == -1

\* Scenario F: pager has an escalation delay.
ChannelsF ==
    [slack |-> [url_env |-> "SLACK_URL", escalation_delay |-> 0],
     pager |-> [url_env |-> "PAGER_URL", escalation_delay |-> EscalationDelay]]

\* The same channels with no escalation delay configured.
ChannelsPlain ==
    [slack |-> [url_env |-> "SLACK_URL", escalation_delay |-> 0],
     pager |-> [url_env |-> "PAGER_URL", escalation_delay |-> 0]]

AlertRules ==
    [critical |-> <<"slack", "pager">>,
     default  |-> <<"slack">>]

getChannelsForSeverity(severity) ==
    IF severity \in DOMAIN AlertRules THEN AlertRules[severity]
    ELSE IF "default" \in DOMAIN AlertRules THEN AlertRules["default"]
    ELSE <<>>

getChannelURL(envVar) == ""

\* NewEngine: one escalation rule per channel with escalation_delay > 0.
escRules ==
    [c \in {n \in DOMAIN channelCfg : channelCfg[n].escalation_delay > 0} |->
        [Channel |-> c, Delay |-> channelCfg[c].escalation_delay]]

\* NewEngine: the manager exists only when there is a rule.
HasEscalation == DOMAIN escRules # {}

\* The evaluator's per-kind default severities.
DefaultSeverity(kind) ==
    IF kind = "interface_admin_down" THEN "warning" ELSE "critical"

(***************************************************************************)
(* Keys.                                                                   *)
(***************************************************************************)
AlertKey(device, entity, kind) == <<device, entity, kind>>

EntityKey(device, entity) == <<device, entity>>

FlapAlertKey(device, entity) == <<"flap", device, entity>>

\* fmt.Sprintf("%s:%s:%s", device, entity, alertType): no string built
\* with "|" between its parts equals one built with ":" between the same
\* parts.
AlertID(device, entity, kind) == <<device, ":", entity, ":", kind>>

(***************************************************************************)
(* FlapDetector.                                                           *)
(***************************************************************************)
HistoryOf(key) == IF key \in DOMAIN history THEN history[key] ELSE <<>>

After(ts, cutoff) == ts > cutoff

Prune(timestamps, t) ==
    SelectSeq(timestamps, LAMBDA ts : After(ts, t - FlapWindow))

\* RecordChange: the pruned history with now appended, and the two results.
RecordChange(key, t) ==
    LET pruned == Append(Prune(HistoryOf(key), t), t)
        over == Len(pruned) >= FlapThreshold
    IN  [history |-> Put(history, key, pruned),
         flapping |-> IF over THEN flapping \cup {key} ELSE flapping,
         isFlapping |-> over,
         justStarted |-> over /\ key \notin flapping]

\* CheckStable: whether the entity was flapping and has now stopped.
CheckStable(flap, key, t) ==
    /\ key \in flap
    /\ Len(Prune(HistoryOf(key), t)) < FlapThreshold

\* Cleanup: prune every history; drop the entity when nothing is left.
CleanupKeep(t) == {k \in DOMAIN history : Len(Prune(history[k], t)) > 0}

CleanupHistory(t) == [k \in CleanupKeep(t) |-> Prune(history[k], t)]

CleanupFlapping(t) == flapping \ ((DOMAIN history) \ CleanupKeep(t))

(***************************************************************************)
(* Alerts, events and what the sink receives.                              *)
(***************************************************************************)
\* A nil map[string]string.
NoRelated == <<>>

AlertEvent(device, entity, kind, firing) ==
    [Device |-> device, Entity |-> entity, AlertType |-> kind,
     Severity |-> DefaultSeverity(kind), Firing |-> firing,
     Message |-> IF firing THEN "deviation" ELSE "recovered",
     Related |-> NoRelated]

NewAlert(ev, t) ==
    [Device |-> ev.Device, Entity |-> ev.Entity, AlertType |-> ev.AlertType,
     Severity |-> ev.Severity, State |-> "firing", FiredAt |-> t,
     ResolvedAt |-> NoTime, Message |-> ev.Message, Suppressed |-> FALSE,
     RelatedState |-> ev.Related]

\* Mutant: the synthetic alert keeps the kind of the event that crossed the
\* threshold.
FlapAlertOfKind(ev, t) ==
    [Device |-> ev.Device, Entity |-> ev.Entity, AlertType |-> ev.AlertType,
     Severity |-> "warning", State |-> "firing", FiredAt |-> t,
     ResolvedAt |-> NoTime, Message |-> "flapping detected",
     Suppressed |-> FALSE, RelatedState |-> NoRelated]

FlapAlert(ev, t) ==
    [Device |-> ev.Device, Entity |-> ev.Entity, AlertType |-> FlapKind,
     Severity |-> "warning", State |-> "firing", FiredAt |-> t,
     ResolvedAt |-> NoTime, Message |-> "flapping detected",
     Suppressed |-> FALSE, RelatedState |-> NoRelated]

Resolved(alert, message, t) ==
    [alert EXCEPT !.State = "resolved", !.ResolvedAt = t, !.Message = message]

\* One call of Notifier.SendAlert(&alert, channels), and whether it
\* returned an error.
Delivery(alert, channels, escalated, t) ==
    [alert |-> alert, channels |-> channels, escalated |-> escalated, at |-> t,
     failed |-> ~sinkUp]

\* A notifyFn that calls SendAlert again when it returned an error.
NotifyRetry(alert, t) ==
    LET d == Delivery(alert, getChannelsForSeverity(alert.Severity), FALSE, t)
    IN  IF sinkUp THEN <<d>> ELSE <<d, d>>

\* notifyFn of NewEngine: route by severity and hand the copy to the sink.
Notify(alert, t) ==
    <<Delivery(alert, getChannelsForSeverity(alert.Severity), FALSE, t)>>

\* engine.escalate of NewEngine: one SendAlert per channel that is configured
\* and whose URL getChannelURL returns.
RECURSIVE Escalate(_, _, _)
Escalate(alert, channels, t) ==
    IF channels = <<>> THEN <<>>
    ELSE LET chName == Head(channels)
             rest == Escalate(alert, Tail(channels), t)
         IN  IF chName \notin DOMAIN channelCfg THEN rest
             ELSE IF getChannelURL(channelCfg[chName].url_env) = "" THEN rest
             ELSE <<Delivery(alert, <<chName>>, TRUE, t)>> \o rest

(***************************************************************************)
(* EscalationManager.                                                      *)
(***************************************************************************)
EscalationChannels(channels) ==
    SelectSeq(channels,
        LAMBDA ch : ch \in DOMAIN escRules /\ escRules[ch].Delay > 0)

RECURSIVE MaxDelay(_)
MaxDelay(channels) ==
    IF channels = <<>> THEN 0
    ELSE LET d == escRules[Head(channels)].Delay
             m == MaxDelay(Tail(channels))
         IN  IF d > m THEN d ELSE m

\* cancel(): the goroutine of that context, if it still runs, finds
\* ctx.Done() closed from now on.
Cancel(procs, id, t) ==
    {IF p.id = id /\ p.cancelledAt = NoTime
     THEN [p EXCEPT !.cancelledAt = t] ELSE p : p \in procs}

TimerProc(id, key, alert, channels, t) ==
    [id |-> id, key |-> key, alert |-> alert, channels |-> channels,
     deadline |-> t + MaxDelay(channels), cancelledAt |-> NoTime,
     pc |-> "select"]

\* StartEscalation(alert, channels): the timer map and the goroutines after it.
StartEscalation(alert, channels, t) ==
    LET esc == EscalationChannels(channels)
        key == AlertKey(alert.Device, alert.Entity, alert.AlertType)
        old == IF key \in DOMAIN timers
               THEN Cancel(timerProcs, timers[key], t)
               ELSE timerProcs
    IN  IF Len(esc) = 0
        THEN [timers |-> timers, procs |-> timerProcs, next |-> nextTimer]
        ELSE [timers |-> Put(timers, key, nextTimer),
              procs |-> old \cup {TimerProc(nextTimer, key, alert, esc, t)},
              next |-> nextTimer + 1]

\* CancelEscalation(device, entity, alertType).
CancelEscalation(device, entity, kind, t) ==
    LET key == AlertKey(device, entity, kind)
    IN  IF key \in DOMAIN timers
        THEN [timers |-> Del(timers, key),
              procs |-> Cancel(timerProcs, timers[key], t)]
        ELSE [timers |-> timers, procs |-> timerProcs]

(***************************************************************************)
(* Engine.process.                                                         *)
(***************************************************************************)
\* Mutant: the comparison with the dedup window is turned around.
DeduplicatedOutside(key, t) ==
    key \in DOMAIN lastFired /\ t - lastFired[key] > DedupWindow

Deduplicated(key, t) ==
    key \in DOMAIN lastFired /\ t - lastFired[key] < DedupWindow

\* The firing path after the flap filter and the dedup check.
Fire(ev, key, t) ==
    LET alert == NewAlert(ev, t)
        esc == IF HasEscalation
               THEN StartEscalation(alert,
                        getChannelsForSeverity(ev.Severity), t)
               ELSE [timers |-> timers, procs |-> timerProcs,
                     next |-> nextTimer]
    IN  /\ activeAlerts' = Put(activeAlerts, key, alert)
        /\ lastFired' = Put(lastFired, key, t)
        /\ sink' = sink \o Notify(alert, t)
        /\ timers' = esc.timers
        /\ timerProcs' = esc.procs
        /\ nextTimer' = esc.next

ProcessFiring(ev, t) ==
    LET key == AlertKey(ev.Device, ev.Entity, ev.AlertType)
        entityKey == EntityKey(ev.Device, ev.Entity)
        rc == IF flapEnabled THEN RecordChange(entityKey, t)
              ELSE [history |-> history, flapping |-> flapping,
                    isFlapping |-> FALSE, justStarted |-> FALSE]
        flapAlert == FlapAlert(ev, t)
    IN  /\ history' = rc.history
        /\ flapping' = rc.flapping
        /\ lastChange' = IF flapEnabled THEN Put(lastChange, entityKey, t)
                         ELSE lastChange
        /\ IF rc.isFlapping
           THEN /\ IF rc.justStarted
                   THEN /\ activeAlerts' =
                              Put(activeAlerts,
                                  FlapAlertKey(ev.Device, ev.Entity), flapAlert)
                        /\ sink' = sink \o Notify(flapAlert, t)
                   ELSE UNCHANGED <<activeAlerts, sink>>
                /\ UNCHANGED <<lastFired, timers, timerProcs, nextTimer>>
           ELSE IF Deduplicated(key, t)
                THEN UNCHANGED <<activeAlerts, lastFired, sink, timers,
                                 timerProcs, nextTimer>>
                ELSE Fire(ev, key, t)

\* Mutant: the resolve path forgets delete(e.activeAlerts, key).
ProcessResolveKeep(ev, t) ==
    LET key == AlertKey(ev.Device, ev.Entity, ev.AlertType)
    IN  /\ UNCHANGED <<history, flapping, lastChange, lastFired, nextTimer,
                       timers, timerProcs>>
        /\ IF key \notin DOMAIN activeAlerts
           THEN UNCHANGED <<activeAlerts, sink>>
           ELSE /\ sink' = sink \o Notify(
                               Resolved(activeAlerts[key], ev.Message, t), t)
                /\ activeAlerts' = [activeAlerts EXCEPT ![key] =
                                       Resolved(activeAlerts[key],
                                                ev.Message, t)]

ProcessResolve(ev, t) ==
    LET key == AlertKey(ev.Device, ev.Entity, ev.AlertType)
        cancel == IF HasEscalation
                  THEN CancelEscalation(ev.Device, ev.Entity, ev.AlertType,
                                        t)
                  ELSE [timers |-> timers, procs |-> timerProcs]
    IN  /\ UNCHANGED <<history, flapping, lastChange, lastFired, nextTimer>>
        /\ IF key \notin DOMAIN activeAlerts
           THEN UNCHANGED <<activeAlerts, sink, timers, timerProcs>>
           ELSE LET existing == Resolved(activeAlerts[key], ev.Message, t)
                IN  /\ sink' = IF existing.Suppressed THEN sink
                               ELSE sink \o Notify(existing, t)
                    /\ timers' = cancel.timers
                    /\ timerProcs' = cancel.procs
                    /\ activeAlerts' = Del(activeAlerts, key)

\* GetActiveAlerts: the alerts of the table whose state is firing.
GetActiveAlerts(table) ==
    {table[k] : k \in {x \in DOMAIN table : table[x].State = "firing"}}

\* A ResolveAlert that looks under the key process stores alerts under.
ResolveAlertByKey(device, entity, kind) ==
    LET alertID == AlertKey(device, entity, kind)
    IN  IF alertID \notin DOMAIN activeAlerts
           \/ activeAlerts[alertID].State = "resolved"
        THEN UNCHANGED <<activeAlerts, sink>>
        ELSE LET alert == Resolved(activeAlerts[alertID], "recovered", now)
             IN  /\ activeAlerts' = [activeAlerts EXCEPT ![alertID] = alert]
                 /\ sink' = sink \o <<Delivery(alert,
                                 getChannelsForSeverity(alert.Severity),
                                 FALSE, now)>>

\* Engine.ResolveAlert(device, entity, alertType).
ResolveAlert(device, entity, kind) ==
    LET alertID == AlertID(device, entity, kind)
    IN  IF alertID \notin DOMAIN activeAlerts
           \/ activeAlerts[alertID].State = "resolved"
        THEN UNCHANGED <<activeAlerts, sink>>
        ELSE LET alert == Resolved(activeAlerts[alertID], "recovered", now)
             IN  /\ activeAlerts' = [activeAlerts EXCEPT ![alertID] = alert]
                 /\ sink' = sink \o <<Delivery(alert,
                                 getChannelsForSeverity(alert.Severity),
                                 FALSE, now)>>

\* A caller of the engine asks it to resolve an alert.
ResolveCalled ==
    /\ ~panicked
    /\ Len(resolveCalls) < MaxResolves
    /\ \E entity \in Entities, kind \in Kinds :
          /\ ResolveAlert(DeviceName, entity, kind)
          /\ resolveCalls' = Append(resolveCalls,
                                    [Device |-> DeviceName, Entity |-> entity,
                                     AlertType |-> kind])
    /\ UNCHANGED <<lastFired, history, flapping, timers, timerProcs,
                   nextTimer, escalations, lastChange, events, offered, now,
                   sweepPc, nextSweep, lastSweep, cfgVars, requestVars,
                   stopped, panicked,
                   mainVars, evalVars>>

\* Engine.Run: the loop takes the next event of the channel and processes it.
Process ==
    /\ ~panicked
    /\ engineLoops > 0
    /\ events # <<>>
    /\ events' = Tail(events)
    /\ IF Head(events).Firing
       THEN ProcessFiring(Head(events), now)
       ELSE ProcessResolve(Head(events), now)
    /\ UNCHANGED <<offered, escalations, now, sweepPc, nextSweep, lastSweep,
                   cfgVars, callVars, mainVars, evalVars>>

\* The sink starts or stops refusing deliveries.
SinkAvailability ==
    /\ sinkUp' = ~sinkUp
    /\ UNCHANGED <<engineVars, events, offered, now, sweepPc, nextSweep,
                   lastSweep, flapEnabled, channelCfg, desired, callVars,
                   mainVars,
                   evalVars>>

\* A producer sends an event on Engine.Events(); the send waits while the
\* channel is full.
Send ==
    /\ offered < MaxEvents
    /\ Len(events) < MaxQueue
    /\ \E entity \in Entities, kind \in Kinds, firing \in BOOLEAN :
          events' = Append(events, AlertEvent(DeviceName, entity, kind, firing))
    /\ offered' = offered + 1
    /\ UNCHANGED <<engineVars, now, sweepPc, nextSweep, lastSweep, cfgVars, callVars, mainVars, evalVars>>

(***************************************************************************)
(* The ticker goroutine of Engine.Run: Cleanup, then checkFlapRecovery.    *)
(***************************************************************************)
\* Run's deferred ticker.Stop() ends the ticks when the loop has returned;
\* the goroutine then waits on ticker.C for ever.
TickerRuns == flapEnabled /\ engineLoops > 0

SweepCleanup ==
    /\ ~panicked
    /\ TickerRuns
    /\ sweepPc = "ticker"
    /\ now >= nextSweep
    /\ history' = CleanupHistory(now)
    /\ flapping' = CleanupFlapping(now)
    /\ sweepPc' = "recovery"
    /\ UNCHANGED <<activeAlerts, lastFired, timers, timerProcs, nextTimer,
                   events, offered, sink, escalations, lastChange, now,
                   nextSweep, lastSweep, cfgVars, callVars, mainVars, evalVars>>

\* The flapping_detected alerts of the table whose entity CheckStable reports.
StableKeys(t) ==
    {k \in DOMAIN activeAlerts :
        /\ activeAlerts[k].AlertType = FlapKind
        /\ CheckStable(flapping,
               EntityKey(activeAlerts[k].Device, activeAlerts[k].Entity), t)}

FlapResolved(alert, t) == Resolved(alert, "flapping stopped", t)

RECURSIVE RecoveryDeliveries(_, _)
RecoveryDeliveries(keys, t) ==
    IF keys = {} THEN <<>>
    ELSE LET k == CHOOSE x \in keys : TRUE
         IN  Notify(FlapResolved(activeAlerts[k], t), t)
                 \o RecoveryDeliveries(keys \ {k}, t)

SweepRecovery ==
    /\ ~panicked
    /\ sweepPc = "recovery"
    /\ LET stable == StableKeys(now)
       IN  /\ flapping' = flapping \
                  {EntityKey(activeAlerts[k].Device, activeAlerts[k].Entity) :
                      k \in stable}
           /\ sink' = sink \o RecoveryDeliveries(stable, now)
           /\ activeAlerts' = [k \in (DOMAIN activeAlerts) \ stable |->
                                  activeAlerts[k]]
    /\ sweepPc' = "ticker"
    /\ nextSweep' = nextSweep + SweepPeriod
    /\ lastSweep' = now
    /\ UNCHANGED <<lastFired, history, timers, timerProcs, nextTimer, events,
                   offered, escalations, lastChange, now, cfgVars, callVars, mainVars, evalVars>>

(***************************************************************************)
(* The escalation goroutine started by StartEscalation.                    *)
(***************************************************************************)
Replace(procs, p, q) == (procs \ {p}) \cup {q}

\* select: <-ctx.Done() is ready, the goroutine returns.
TimerCancelled ==
    \E p \in timerProcs :
        /\ ~panicked
        /\ p.pc = "select"
        /\ p.cancelledAt # NoTime
        /\ timerProcs' = timerProcs \ {p}
        /\ UNCHANGED <<activeAlerts, lastFired, history, flapping, timers,
                       nextTimer, events, offered, sink, escalations,
                       lastChange, now, sweepPc, nextSweep, lastSweep,
                       cfgVars, callVars, mainVars, evalVars>>

\* select: <-time.After(maxDelay) is ready.  A context cancelled before the
\* deadline has already ended the goroutine; when both cases are ready the
\* select takes either.
TimerExpired ==
    \E p \in timerProcs :
        /\ ~panicked
        /\ p.pc = "select"
        /\ now >= p.deadline
        /\ p.cancelledAt = NoTime \/ p.cancelledAt >= p.deadline
        /\ timerProcs' = Replace(timerProcs, p, [p EXCEPT !.pc = "escalate"])
        /\ UNCHANGED <<activeAlerts, lastFired, history, flapping, timers,
                       nextTimer, events, offered, sink, escalations,
                       lastChange, now, sweepPc, nextSweep, lastSweep,
                       cfgVars, callVars, mainVars, evalVars>>

\* m.onEscalate(alert, escalationChannels).
Escalation(p, t) ==
    [alert |-> p.alert, channels |-> p.channels, at |-> t,
     active |-> p.key \in DOMAIN activeAlerts, afterStop |-> stopped]

TimerEscalate ==
    \E p \in timerProcs :
        /\ ~panicked
        /\ p.pc = "escalate"
        /\ escalations' = Append(escalations, Escalation(p, now))
        /\ sink' = sink \o Escalate(p.alert, p.channels, now)
        /\ timerProcs' = Replace(timerProcs, p, [p EXCEPT !.pc = "clear"])
        /\ UNCHANGED <<activeAlerts, lastFired, history, flapping, timers,
                       nextTimer, events, offered, lastChange, now, sweepPc,
                       nextSweep, lastSweep, cfgVars, callVars, mainVars, evalVars>>

\* delete(m.timers, key) under the manager's lock; the goroutine returns.
TimerClear ==
    \E p \in timerProcs :
        /\ ~panicked
        /\ p.pc = "clear"
        /\ timers' = Del(timers, p.key)
        /\ timerProcs' = timerProcs \ {p}
        /\ UNCHANGED <<activeAlerts, lastFired, history, flapping, nextTimer,
                       events, offered, sink, escalations, lastChange, now,
                       sweepPc, nextSweep, lastSweep, cfgVars, callVars, mainVars, evalVars>>

(***************************************************************************)
(* The clock.  A tick of the sweep ticker is served, and a goroutine whose  *)
(* select is ready runs to its return, before time moves on.               *)
(***************************************************************************)
TimerWaiting(p) ==
    p.pc = "select" /\ p.cancelledAt = NoTime /\ now < p.deadline

Tick ==
    /\ ~panicked
    /\ now < MaxTime
    /\ sweepPc = "ticker"
    /\ TickerRuns => now < nextSweep
    /\ \A p \in timerProcs : TimerWaiting(p)
    /\ now' = now + 1
    /\ UNCHANGED <<engineVars, events, offered, sweepPc, nextSweep, lastSweep,
                   cfgVars, callVars, mainVars, evalVars>>

(***************************************************************************)
(* Evaluator: intent, paths and values.                                    *)
(***************************************************************************)
NoOverrides ==
    [StateMismatch |-> "", MemberDown |-> "", ChannelDown |-> "",
     AdminDown |-> ""]

NoPolicy == [Mode |-> "", Minimum |-> 0]

InterfaceConfig(desiredState, adminState, required) ==
    [DesiredState |-> desiredState, AdminState |-> adminState,
     Members |-> required, MemberPolicy |-> NoPolicy, Alerts |-> NoOverrides]

\* An interface with required members and a member policy.
ChannelConfig(desiredState, required, mode, minimum) ==
    [InterfaceConfig(desiredState, "", required) EXCEPT
        !.MemberPolicy = [Mode |-> mode, Minimum |-> minimum]]

\* The intent of Scenario E as it is written: Po1 and nothing else.
IntentE ==
    [x \in {"Po1"} |->
        ChannelConfig("up", <<"Gi1/0/49", "Gi1/0/50">>, "all_active", 0)]

\* Scenario E with the members declared as interfaces of the device.
IntentEMembers ==
    [x \in {"Po1", "Gi1/0/49", "Gi1/0/50"} |->
        IF x = "Po1"
        THEN ChannelConfig("up", <<"Gi1/0/49", "Gi1/0/50">>, "all_active", 0)
        ELSE InterfaceConfig("up", "", <<>>)]

\* The same channel under min_active with a minimum of one member.
IntentMin ==
    [x \in {"Po1", "Gi1/0/49", "Gi1/0/50"} |->
        IF x = "Po1"
        THEN ChannelConfig("up", <<"Gi1/0/49", "Gi1/0/50">>, "min_active", 1)
        ELSE InterfaceConfig("up", "", <<>>)]

\* A channel whose required members name the channel itself.
IntentSelf ==
    [x \in {"Po1", "Gi1/0/49"} |->
        IF x = "Po1"
        THEN ChannelConfig("up", <<"Po1", "Gi1/0/49">>, "all_active", 0)
        ELSE InterfaceConfig("up", "", <<>>)]

\* The intent of Scenarios A, C, D and F.
IntentA == [x \in {"Gi1/0/1"} |-> InterfaceConfig("up", "", <<>>)]

\* The intent of Scenario B.
IntentB == [x \in {"Gi1/0/2"} |-> InterfaceConfig("up", "enabled", <<>>)]

\* A normalizeState that leaves the value as the device sent it.
normalizeStateVerbatim(value) == value

\* strings.ToLower(strings.TrimSpace(value)) on the values of the model.
normalizeState(value) ==
    CASE value \in {"UP", "up", "Up", " UP "} -> "up"
      [] value \in {"DOWN", "down", "Down", " DOWN "} -> "down"
      [] value \in {"ENABLED", "enabled", " Enabled "} -> "enabled"
      [] value \in {"DISABLED", "disabled"} -> "disabled"
      [] value \in {"", " "} -> ""
      [] OTHER -> value

supportedOperStates == {"up", "down"}

supportedAdminStates == {"enabled", "disabled"}

PathElem(name, key) == [Name |-> name, Key |-> key]

\* /interfaces/interface[name=X]/state/<leaf>
InterfacePath(iface, leaf) ==
    <<PathElem("interfaces", ""), PathElem("interface", iface),
      PathElem("state", ""), PathElem(leaf, "")>>

Update(path, val) == [Path |-> path, Val |-> val]

ParseError == [ifaceName |-> "", stateType |-> "", err |-> TRUE]

parseInterfacePath(path) ==
    IF Len(path) < 4 THEN ParseError
    ELSE IF path[1].Name # "interfaces" \/ path[2].Name # "interface"
    THEN ParseError
    ELSE IF path[2].Key = "" THEN ParseError
    ELSE IF path[3].Name # "state" THEN ParseError
    ELSE IF path[4].Name \notin {"oper-status", "admin-status"} THEN ParseError
    ELSE [ifaceName |-> path[2].Key, stateType |-> path[4].Name, err |-> FALSE]

\* The fallback of EvaluateNotification when the path did not parse: the
\* interface name of the prefix, and the same path parsed again.
RECURSIVE PrefixFallback(_, _, _)
PrefixFallback(elems, path, acc) ==
    IF elems = <<>> THEN acc
    ELSE LET elem == Head(elems)
             named == elem.Name = "interface" /\ elem.Key # ""
             again == parseInterfacePath(path)
             next == IF named
                     THEN [ifaceName |-> elem.Key,
                           stateType |-> again.stateType, err |-> again.err]
                     ELSE acc
         IN  PrefixFallback(Tail(elems), path, next)

ParseUpdate(prefix, path) ==
    LET parsed == parseInterfacePath(path)
    IN  IF parsed.err THEN PrefixFallback(prefix, path, parsed) ELSE parsed

(***************************************************************************)
(* Evaluator: the state cache and the three evaluations.                   *)
(***************************************************************************)
CacheKey(device, iface) == <<device, iface>>

\* interfaceState without UpdatedAt and Members, which no evaluation reads.
ZeroState ==
    [Device |-> "", Interface |-> "", OperStatus |-> "", AdminStatus |-> ""]

CacheGet(cache, key) == IF key \in DOMAIN cache THEN cache[key] ELSE ZeroState

\* Lines 124-139: the cached state with the leaf of the update written.
UpdatedState(cache, device, iface, stateType, value, t) ==
    LET state == [CacheGet(cache, CacheKey(device, iface)) EXCEPT
                     !.Device = device, !.Interface = iface]
    IN  IF stateType = "oper-status"
        THEN [state EXCEPT !.OperStatus = normalizeState(value)]
        ELSE IF stateType = "admin-status"
        THEN [state EXCEPT !.AdminStatus = normalizeState(value)]
        ELSE state

\* Line 140: prevState := state, taken after the cache was written.
PrevState(cache, state) == state

severityForAlert(ifCfg, alertName, fallback) ==
    IF ifCfg.Alerts.StateMismatch # "" /\ alertName = "state_mismatch"
    THEN ifCfg.Alerts.StateMismatch
    ELSE IF ifCfg.Alerts.MemberDown # "" /\ alertName = "member_down"
    THEN ifCfg.Alerts.MemberDown
    ELSE IF ifCfg.Alerts.ChannelDown # "" /\ alertName = "channel_down"
    THEN ifCfg.Alerts.ChannelDown
    ELSE IF ifCfg.Alerts.AdminDown # "" /\ alertName = "admin_down"
    THEN ifCfg.Alerts.AdminDown
    ELSE fallback

StateChange(device, iface, kind, severity, related) ==
    [Device |-> device, Interface |-> iface, AlertType |-> kind,
     Severity |-> severity, Message |-> "deviation", RelatedState |-> related]

evaluateAdminChange(device, iface, ifCfg, prevState, ifaceState) ==
    LET desiredAdmin == normalizeState(ifCfg.AdminState)
    IN  IF ifCfg.AdminState = "" THEN <<>>
        ELSE IF desiredAdmin \notin supportedAdminStates THEN <<>>
        ELSE IF prevState.AdminStatus = ifaceState.AdminStatus THEN <<>>
        ELSE IF ifaceState.AdminStatus = ""
                \/ ifaceState.AdminStatus = desiredAdmin THEN <<>>
        ELSE <<StateChange(device, iface, "interface_admin_down",
                   severityForAlert(ifCfg, "admin_down", "warning"),
                   [expected_admin |-> desiredAdmin,
                    actual_admin |-> ifaceState.AdminStatus])>>

\* An evaluateOperChange without the look at the admin state.
evaluateOperChangeNoAdmin(device, iface, ifCfg, ifaceState) ==
    LET want == normalizeState(ifCfg.DesiredState)
    IN  IF ifCfg.DesiredState = "" THEN <<>>
        ELSE IF want \notin supportedOperStates THEN <<>>
        ELSE IF ifaceState.OperStatus = "" THEN <<>>
        ELSE IF ifaceState.OperStatus # want
        THEN <<StateChange(device, iface, "interface_state_mismatch",
                   severityForAlert(ifCfg, "state_mismatch", "critical"),
                   [expected_state |-> want,
                    actual_state |-> ifaceState.OperStatus])>>
        ELSE <<>>

evaluateOperChange(device, iface, ifCfg, ifaceState) ==
    LET want == normalizeState(ifCfg.DesiredState)
        desiredAdmin == normalizeState(ifCfg.AdminState)
    IN  IF ifCfg.DesiredState = "" THEN <<>>
        ELSE IF want \notin supportedOperStates THEN <<>>
        ELSE IF /\ ifCfg.AdminState # ""
                /\ desiredAdmin \in supportedAdminStates
                /\ ifaceState.AdminStatus # ""
                /\ ifaceState.AdminStatus # desiredAdmin THEN <<>>
        ELSE IF ifaceState.OperStatus = "" THEN <<>>
        ELSE IF ifaceState.OperStatus # want
        THEN <<StateChange(device, iface, "interface_state_mismatch",
                   severityForAlert(ifCfg, "state_mismatch", "critical"),
                   [expected_state |-> want,
                    actual_state |-> ifaceState.OperStatus])>>
        ELSE <<>>

\* Go's map iteration order is not specified; the model fixes one order.
RECURSIVE SetToSeq(_)
SetToSeq(S) ==
    IF S = {} THEN <<>>
    ELSE LET x == CHOOSE y \in S : TRUE IN <<x>> \o SetToSeq(S \ {x})

InSeq(x, seq) == \E i \in 1..Len(seq) : seq[i] = x

channelNamesForMember(cfg, member) ==
    SetToSeq({n \in DOMAIN cfg :
                 Len(cfg[n].Members) > 0 /\ InSeq(member, cfg[n].Members)})

DownMembers(cache, device, required) ==
    SelectSeq(required,
        LAMBDA m : normalizeState(
                       CacheGet(cache, CacheKey(device, m)).OperStatus) # "up")

evaluateChannelMembers(cache, device, channelName, ifCfg) ==
    LET policy == ifCfg.MemberPolicy
        mode == IF policy.Mode # "" THEN policy.Mode ELSE "all_active"
        minimum == IF mode = "min_active" /\ policy.Minimum > 0
                   THEN policy.Minimum ELSE Len(ifCfg.Members)
        down == DownMembers(cache, device, ifCfg.Members)
        active == Len(ifCfg.Members) - Len(down)
    IN  IF Len(ifCfg.Members) = 0 THEN <<>>
        ELSE IF mode = "all_active" /\ Len(down) > 0
        THEN <<StateChange(device, channelName, "port_channel_member_down",
                   severityForAlert(ifCfg, "member_down", "critical"),
                   [down_members |-> down])>>
        ELSE IF mode = "min_active" /\ active < minimum
        THEN <<StateChange(device, channelName, "port_channel_down",
                   severityForAlert(ifCfg, "channel_down", "critical"),
                   [active_members |-> active, minimum |-> minimum])>>
        ELSE <<>>

RECURSIVE ChannelAlerts(_, _, _, _)
ChannelAlerts(cache, cfg, device, names) ==
    IF names = <<>> THEN <<>>
    ELSE (IF Head(names) \in DOMAIN cfg
          THEN evaluateChannelMembers(cache, device, Head(names),
                                      cfg[Head(names)])
          ELSE <<>>)
         \o ChannelAlerts(cache, cfg, device, Tail(names))

evaluatePortChannel(cache, cfg, device, iface) ==
    LET own == IF iface \in DOMAIN cfg /\ Len(cfg[iface].Members) > 0
               THEN <<iface>> ELSE <<>>
    IN  ChannelAlerts(cache, cfg, device,
                      channelNamesForMember(cfg, iface) \o own)

\* An EvaluateUpdate that writes the observation before it looks the
\* interface up in the configuration.
EvaluateUpdateWriteFirst(cache, cfg, device, prefix, update, t) ==
    LET parsed == ParseUpdate(prefix, update.Path)
        iface == parsed.ifaceName
        state == UpdatedState(cache, device, iface, parsed.stateType,
                              update.Val, t)
        written == Put(cache, CacheKey(device, iface), state)
        prevState == PrevState(cache, state)
        admin == IF parsed.stateType = "admin-status"
                 THEN evaluateAdminChange(device, iface, cfg[iface],
                                          prevState, state)
                 ELSE <<>>
        oper == IF parsed.stateType = "oper-status"
                THEN evaluateOperChange(device, iface, cfg[iface], state)
                         \o evaluatePortChannel(written, cfg, device, iface)
                ELSE <<>>
    IN  IF parsed.err \/ iface = "" THEN [cache |-> cache, changes |-> <<>>]
        ELSE IF iface \notin DOMAIN cfg
        THEN [cache |-> written, changes |-> <<>>]
        ELSE [cache |-> written, changes |-> admin \o oper]

\* One update of a notification: the cache after it and the changes it adds.
EvaluateUpdate(cache, cfg, device, prefix, update, t) ==
    LET parsed == ParseUpdate(prefix, update.Path)
        iface == parsed.ifaceName
        skip == parsed.err \/ iface = "" \/ iface \notin DOMAIN cfg
        state == UpdatedState(cache, device, iface, parsed.stateType,
                              update.Val, t)
        written == Put(cache, CacheKey(device, iface), state)
        prevState == PrevState(cache, state)
        admin == IF parsed.stateType = "admin-status"
                 THEN evaluateAdminChange(device, iface, cfg[iface],
                                          prevState, state)
                 ELSE <<>>
        oper == IF parsed.stateType = "oper-status"
                THEN evaluateOperChange(device, iface, cfg[iface], state)
                         \o evaluatePortChannel(written, cfg, device, iface)
                ELSE <<>>
    IN  IF skip THEN [cache |-> cache, changes |-> <<>>]
        ELSE [cache |-> written, changes |-> admin \o oper]

RECURSIVE EvaluateNotification(_, _, _, _, _, _)
EvaluateNotification(cache, cfg, device, prefix, updates, t) ==
    IF updates = <<>> THEN [cache |-> cache, changes |-> <<>>]
    ELSE LET first == EvaluateUpdate(cache, cfg, device, prefix,
                                     Head(updates), t)
             rest == EvaluateNotification(first.cache, cfg, device, prefix,
                                          Tail(updates), t)
         IN  [cache |-> rest.cache, changes |-> first.changes \o rest.changes]

(***************************************************************************)
(* The update task of startCollector and Engine.ProcessStateChange.        *)
(***************************************************************************)
FedLeaves == {"oper-status", "admin-status"}

FedValues == {"UP", "DOWN"}

\* What the history variable keeps of one evaluated update.
FedRecord(iface, leaf, val, before, result, t) ==
    [iface |-> iface, leaf |-> leaf, val |-> val, at |-> t,
     adminBefore |-> CacheGet(before, CacheKey(DeviceName, iface)).AdminStatus,
     kinds |-> [i \in 1..Len(result.changes) |-> result.changes[i].AlertType]]

\* The interfaces the device reports: the declared ones and the members
\* the declared ones require.
DeviceInterfaces(cfg) ==
    DOMAIN cfg
        \cup UNION {{cfg[n].Members[i] : i \in 1..Len(cfg[n].Members)} :
                       n \in DOMAIN cfg}

\* changes := eval.EvaluateNotification(name, notification) on a
\* notification of one update.
FeedNotification(prefix, path, iface, leaf, val) ==
    LET result == EvaluateNotification(stateCache, desired, DeviceName,
                      prefix, <<Update(path, val)>>, now)
    IN  /\ stateCache' = result.cache
        /\ pending' = result.changes
        /\ fed' = Append(fed, FedRecord(iface, leaf, val, stateCache,
                                        result, now))

FeedUpdate(iface, leaf, val) ==
    FeedNotification(<<>>, InterfacePath(iface, leaf), iface, leaf, val)

\* The ways a device splits /interfaces/interface[name=X]/state/<leaf>
\* into the prefix of the notification and the path of the update.
PrefixForms(iface, leaf) ==
    {[prefix |-> <<PathElem("interfaces", ""), PathElem("interface", iface)>>,
      path |-> <<PathElem("state", ""), PathElem(leaf, "")>>],
     [prefix |-> <<PathElem("interfaces", ""), PathElem("interface", iface),
                   PathElem("state", "")>>,
      path |-> <<PathElem(leaf, "")>>]}

\* A notification that carries the interface in its prefix.
FeedPrefixed ==
    /\ ~panicked
    /\ Len(fed) < MaxNotifications
    /\ pending = <<>>
    /\ \E iface \in DeviceInterfaces(desired), leaf \in FedLeaves,
          val \in FedValues :
          \E form \in PrefixForms(iface, leaf) :
              FeedNotification(form.prefix, form.path, iface, leaf, val)
    /\ UNCHANGED <<engineVars, events, offered, now, sweepPc, nextSweep,
                   lastSweep, cfgVars, callVars, mainVars, dropped>>

\* notification := <-c.Updates(); changes := eval.EvaluateNotification(...)
Feed ==
    /\ ~panicked
    /\ Len(fed) < MaxNotifications
    /\ pending = <<>>
    /\ \E iface \in DeviceInterfaces(desired), leaf \in FedLeaves,
          val \in FedValues :
          FeedUpdate(iface, leaf, val)
    /\ UNCHANGED <<engineVars, events, offered, now, sweepPc, nextSweep,
                   lastSweep, cfgVars, callVars, mainVars, dropped>>

\* The same from a device whose subscription streams oper-status only.
FeedOper ==
    /\ ~panicked
    /\ Len(fed) < MaxNotifications
    /\ pending = <<>>
    /\ \E iface \in DeviceInterfaces(desired), val \in FedValues :
          FeedUpdate(iface, "oper-status", val)
    /\ UNCHANGED <<engineVars, events, offered, now, sweepPc, nextSweep,
                   lastSweep, cfgVars, callVars, mainVars, dropped>>

\* One sample of the subscription (SAMPLE mode, every 10 s): the
\* oper-status of an interface as it is at that moment.
FeedSample ==
    /\ ~panicked
    /\ Len(fed) < MaxSamples
    /\ pending = <<>>
    /\ \E iface \in DeviceInterfaces(desired), val \in FedValues :
          FeedUpdate(iface, "oper-status", val)
    /\ UNCHANGED <<engineVars, events, offered, now, sweepPc, nextSweep,
                   lastSweep, cfgVars, callVars, mainVars, dropped>>

\* The same from a device that reports its admin state in the words of
\* the configuration.
FeedAdminEnabled ==
    /\ Len(fed) < MaxNotifications
    /\ pending = <<>>
    /\ \E iface \in DeviceInterfaces(desired) :
          FeedUpdate(iface, "admin-status", "ENABLED")
    /\ UNCHANGED <<engineVars, events, offered, now, sweepPc, nextSweep,
                   lastSweep, cfgVars, callVars, mainVars, dropped>>

\* ProcessStateChange: the event is always a firing one.
StateChangeEvent(change) ==
    [Device |-> change.Device, Entity |-> change.Interface,
     AlertType |-> change.AlertType, Severity |-> change.Severity,
     Firing |-> TRUE, Message |-> change.Message,
     Related |-> change.RelatedState]

\* A ProcessStateChange on a channel without a capacity.
ProcessStateChangeUnbounded(queue, change) ==
    Append(queue, StateChangeEvent(change))

\* The select of Engine.ProcessStateChange: a send that never waits; the
\* event is dropped when the channel is full.
ProcessStateChange(queue, change) ==
    IF Len(queue) < MaxQueue
    THEN Append(queue, StateChangeEvent(change))
    ELSE queue

\* alertEngine.ProcessStateChange(change) on the next change.  A send on a
\* closed channel panics, in a select with a default case as anywhere.
Forward ==
    /\ ~panicked
    /\ pending # <<>>
    /\ pending' = Tail(pending)
    /\ IF stopped
       THEN /\ panicked' = TRUE
            /\ UNCHANGED <<events, dropped>>
       ELSE /\ events' = ProcessStateChange(events, Head(pending))
            /\ dropped' = IF Len(events) < MaxQueue THEN dropped
                           ELSE dropped + 1
            /\ UNCHANGED panicked
    /\ UNCHANGED <<engineVars, offered, now, sweepPc, nextSweep, lastSweep,
                   cfgVars, requestVars, stopped, resolveCalls, mainVars,
                   stateCache, fed>>

(***************************************************************************)
(* Collector (internal/collector/gnmi.go).  A transport or stream handle   *)
(* is "nil", "open" or "closed"; the retry counters of Connect (attempt,   *)
(* ReconnectCount) and the durations of its waits are left out: a wait may *)
(* end at any moment.                                                      *)
(***************************************************************************)
Notification(n, val) == [n |-> n, val |-> val, iface |-> "Gi1/0/1"]

\* The same about another interface of the device.
InterfaceNotification(n, iface, val) ==
    [Notification(n, val) EXCEPT !.iface = iface]

NoNotification == Notification(0, "")

\* NewCollector, together with the positions of the goroutines that
\* startCollector launches for it: pc is the connection goroutine, upc the
\* update goroutine, rx counts the running receiveUpdates goroutines,
\* dialed is the conn that connectOnce has not yet stored in c.conn, and
\* synced tells that the stream of the current session has delivered its
\* sync response.
NewCollector(device) ==
    [device |-> device, done |-> FALSE, conn |-> "nil", client |-> "nil",
     health |-> [Connected |-> FALSE, LastError |-> "",
                 SyncReceived |-> FALSE, UpdateCount |-> 0],
     synced |-> FALSE,
     updateChan |-> <<>>, errors |-> <<>>, rx |-> 0,
     pc |-> "connect", reconnectDelay |-> InitialReconnectDelay,
     dialed |-> "nil", leaked |-> 0,
     upc |-> "select", heldUpdate |-> NoNotification]

\* A Done channel that were never closed.
DoneNeverClosed(col) == FALSE

\* <-c.Done() is ready: the context of the collector is cancelled.
DoneClosed(col) == col.done

\* CloseSend() or Close() on a handle.
Closed(handle) == IF handle = "open" THEN "closed" ELSE handle

\* Collector.Close: cancel, then CloseSend and Close on the fields as they
\* are at that moment.
Close(col) ==
    [col EXCEPT !.done = TRUE, !.client = Closed(@), !.conn = Closed(@)]

\* Collector.closeExisting.
closeExisting(col) == [col EXCEPT !.client = "nil", !.conn = "nil"]

\* An emitError that loses the error.
emitErrorLost(errs, err) == errs

\* Collector.emitError: a send that never waits; the error is dropped when
\* the channel is full.
emitError(errs, err) ==
    IF Len(errs) < ErrorsBuffer THEN Append(errs, err) ELSE errs

\* The send at the end of Collector.handleNotification.
handleNotification(updates, notif) ==
    IF Len(updates) < MaxUpdates THEN Append(updates, notif) ELSE updates

\* What Collector.handleNotification records of a notification, under the
\* mutex and before the send.
NotificationCounted(health) == [health EXCEPT !.UpdateCount = @ + 1]

\* connectOnce returns nil: the stream is open and receiveUpdates runs.
connectOnce(col) ==
    [col EXCEPT !.client = "open", !.rx = @ + 1, !.synced = FALSE,
                !.pc = "connected"]

\* Connect after connectOnce returned nil; the connection goroutine resets
\* its delay and blocks on Done and Errors.
ConnectSucceeded(col) ==
    [col EXCEPT !.health = [@ EXCEPT !.Connected = TRUE,
                                     !.LastError = "",
                                     !.SyncReceived = FALSE],
                !.pc = "monitor",
                !.reconnectDelay = InitialReconnectDelay]

\* Connect after connectOnce returned an error: it records the error and
\* waits its own backoff before the next attempt.
ConnectFailed(col, err) ==
    [col EXCEPT !.health = [@ EXCEPT !.Connected = FALSE,
                                     !.LastError = err],
                !.pc = "retryWait"]

\* The connection goroutine after Connect returned an error.
ConnectReturned(col) ==
    [col EXCEPT !.pc = IF DoneClosed(col) THEN "exit" ELSE "backoff"]

NextReconnectDelay(delay) ==
    IF delay * 2 > MaxReconnectDelay THEN MaxReconnectDelay ELSE delay * 2

\* A session of the state machine Created -> Connecting -> Streaming.
Streaming(col) ==
    col.rx > 0 /\ col.conn = "open" /\ col.client = "open" /\ ~col.done

(***************************************************************************)
(* The connection goroutine of startCollector, through Collector.Connect   *)
(* and Collector.connectOnce.                                              *)
(***************************************************************************)
\* c.Connect() is called: closeExisting.
ConnectEnter ==
    \E c \in DOMAIN cols :
        /\ cols[c].pc = "connect"
        /\ cols' = [cols EXCEPT ![c] =
                       [closeExisting(cols[c]) EXCEPT !.pc = "attempt"]]
        /\ UNCHANGED <<engineVars, events, offered, now, sweepPc, nextSweep,
                       lastSweep, cfgVars, callVars, retryVars, evalVars, reloadVars,
                       deviceVars, loopVars>>

\* Top of the loop of Connect with the context alive: connectOnce starts.
ConnectAttempt ==
    \E c \in DOMAIN cols :
        /\ cols[c].pc = "attempt"
        /\ ~DoneClosed(cols[c])
        /\ cols' = [cols EXCEPT ![c].pc = "dial"]
        /\ UNCHANGED <<engineVars, events, offered, now, sweepPc, nextSweep,
                       lastSweep, cfgVars, callVars, retryVars, evalVars, reloadVars,
                       deviceVars, loopVars>>

\* Connect returns c.ctx.Err(), at the top of its loop or from its wait.
ConnectCancelled ==
    \E c \in DOMAIN cols :
        /\ cols[c].pc \in {"attempt", "retryWait"}
        /\ DoneClosed(cols[c])
        /\ cols' = [cols EXCEPT ![c] = ConnectReturned(cols[c])]
        /\ UNCHANGED <<engineVars, events, offered, now, sweepPc, nextSweep,
                       lastSweep, cfgVars, callVars, retryVars, evalVars, reloadVars,
                       deviceVars, loopVars>>

\* grpc.DialContext with WithBlock returns.
Dial ==
    \E c \in DOMAIN cols :
        /\ cols[c].pc = "dial"
        /\ cols' = [cols EXCEPT ![c] =
                       IF reachable /\ ~DoneClosed(cols[c])
                       THEN [cols[c] EXCEPT !.dialed = "open",
                                            !.pc = "dialed"]
                       ELSE ConnectFailed(cols[c],
                                          "failed to dial gNMI server")]
        /\ UNCHANGED <<engineVars, events, offered, now, sweepPc, nextSweep,
                       lastSweep, cfgVars, callVars, retryVars, evalVars, reloadVars,
                       deviceVars, loopVars>>

\* c.conn = conn.
AssignConn ==
    \E c \in DOMAIN cols :
        /\ cols[c].pc = "dialed"
        /\ cols' = [cols EXCEPT ![c] =
                       [cols[c] EXCEPT
                           !.leaked = IF cols[c].conn = "open"
                                      THEN @ + 1 ELSE @,
                           !.conn = cols[c].dialed,
                           !.dialed = "nil",
                           !.pc = "subscribe"]]
        /\ UNCHANGED <<engineVars, events, offered, now, sweepPc, nextSweep,
                       lastSweep, cfgVars, callVars, retryVars, evalVars, reloadVars,
                       deviceVars, loopVars>>

\* client.Subscribe(c.ctx) and startSubscription.  On a context that is
\* already cancelled the stream can still be created and the request
\* written before the cancellation is noticed.
SubscribeAccepted(col) == col.conn = "open" /\ reachable

SubscribeRejected(col) ==
    col.conn # "open" \/ ~reachable \/ DoneClosed(col)

Subscribe ==
    \E c \in DOMAIN cols :
        /\ cols[c].pc = "subscribe"
        /\ \/ /\ SubscribeAccepted(cols[c])
              /\ cols' = [cols EXCEPT ![c] = connectOnce(cols[c])]
           \/ /\ SubscribeRejected(cols[c])
              /\ cols' = [cols EXCEPT ![c] =
                             ConnectFailed(
                                 [cols[c] EXCEPT !.conn = Closed(@),
                                                 !.client = Closed(@)],
                                 "failed to start subscription")]
        /\ UNCHANGED <<engineVars, events, offered, now, sweepPc, nextSweep,
                       lastSweep, cfgVars, callVars, retryVars, evalVars, reloadVars,
                       deviceVars, loopVars>>

\* Connect takes the mutex and marks the session connected.
HealthUpdate ==
    \E c \in DOMAIN cols :
        /\ cols[c].pc = "connected"
        /\ cols' = [cols EXCEPT ![c] = ConnectSucceeded(cols[c])]
        /\ UNCHANGED <<engineVars, events, offered, now, sweepPc, nextSweep,
                       lastSweep, cfgVars, callVars, retryVars, evalVars, reloadVars,
                       deviceVars, loopVars>>

\* The wait of Connect after a failed attempt: <-time.After(backoff).
RetryWaitElapsed ==
    \E c \in DOMAIN cols :
        /\ cols[c].pc = "retryWait"
        /\ cols' = [cols EXCEPT ![c].pc = "attempt"]
        /\ UNCHANGED <<engineVars, events, offered, now, sweepPc, nextSweep,
                       lastSweep, cfgVars, callVars, retryVars, evalVars, reloadVars,
                       deviceVars, loopVars>>

\* case err := <-c.Errors() of the monitoring select.
MonitorError ==
    \E c \in DOMAIN cols :
        /\ cols[c].pc = "monitor"
        /\ cols[c].errors # <<>>
        /\ cols' = [cols EXCEPT ![c] =
                       [cols[c] EXCEPT
                           !.errors = Tail(@),
                           !.pc = IF DoneClosed(cols[c]) THEN "exit"
                                  ELSE "cooldown"]]
        /\ UNCHANGED <<engineVars, events, offered, now, sweepPc, nextSweep,
                       lastSweep, cfgVars, callVars, retryVars, evalVars, reloadVars,
                       deviceVars, loopVars>>

\* case <-c.Done() of the selects of the connection goroutine.
SupervisorClosed ==
    \E c \in DOMAIN cols :
        /\ cols[c].pc \in {"backoff", "monitor", "cooldown"}
        /\ DoneClosed(cols[c])
        /\ cols' = [cols EXCEPT ![c].pc = "exit"]
        /\ UNCHANGED <<engineVars, events, offered, now, sweepPc, nextSweep,
                       lastSweep, cfgVars, callVars, retryVars, evalVars, reloadVars,
                       deviceVars, loopVars>>

\* case <-time.After of the backoff and of the cooldown: back to Connect.
WaitElapsed ==
    \E c \in DOMAIN cols :
        /\ cols[c].pc \in {"backoff", "cooldown"}
        /\ cols' = [cols EXCEPT ![c] =
                       [cols[c] EXCEPT
                           !.reconnectDelay =
                               IF cols[c].pc = "backoff"
                               THEN NextReconnectDelay(@) ELSE @,
                           !.pc = "connect"]]
        /\ UNCHANGED <<engineVars, events, offered, now, sweepPc, nextSweep,
                       lastSweep, cfgVars, callVars, retryVars, evalVars, reloadVars,
                       deviceVars, loopVars>>

(***************************************************************************)
(* Collector.receiveUpdates, and the device at the other end.              *)
(***************************************************************************)
\* Recv returns an update: handleNotification.
Receive ==
    \E c \in DOMAIN cols, val \in FedValues :
        /\ Streaming(cols[c])
        /\ reachable
        /\ sent < MaxSent
        /\ sent' = sent + 1
        /\ lastReceived' = [lastReceived EXCEPT ![cols[c].device] =
                               Notification(sent + 1, val)]
        /\ chanDropped' = IF Len(cols[c].updateChan) < MaxUpdates
                          THEN chanDropped ELSE chanDropped + 1
        /\ cols' = [cols EXCEPT ![c] =
                       [cols[c] EXCEPT
                           !.health = NotificationCounted(@),
                           !.updateChan =
                               handleNotification(
                                   @, Notification(sent + 1, val))]]
        /\ UNCHANGED <<engineVars, events, offered, now, sweepPc, nextSweep,
                       lastSweep, cfgVars, callVars, retryVars, evalVars, reloadVars,
                       reachable, losses, evaluated, loopVars>>

\* The same with an update about any interface the device has.
ReceiveAny ==
    \E c \in DOMAIN cols, iface \in {"Gi1/0/1", "Gi1/0/2"}, val \in FedValues :
        /\ Streaming(cols[c])
        /\ reachable
        /\ sent < MaxSent
        /\ sent' = sent + 1
        /\ lastReceived' = [lastReceived EXCEPT ![cols[c].device] =
                               InterfaceNotification(sent + 1, iface, val)]
        /\ chanDropped' = IF Len(cols[c].updateChan) < MaxUpdates
                          THEN chanDropped ELSE chanDropped + 1
        /\ cols' = [cols EXCEPT ![c] =
                       [cols[c] EXCEPT
                           !.health = NotificationCounted(@),
                           !.updateChan =
                               handleNotification(
                                   @, InterfaceNotification(sent + 1, iface,
                                                            val))]]
        /\ UNCHANGED <<engineVars, events, offered, now, sweepPc, nextSweep,
                       lastSweep, cfgVars, callVars, retryVars, evalVars,
                       reloadVars, reachable, losses, evaluated, loopVars>>

\* Recv returns the sync response of the stream.
SyncResponse ==
    \E c \in DOMAIN cols :
        /\ Streaming(cols[c])
        /\ reachable
        /\ ~cols[c].synced
        /\ cols' = [cols EXCEPT ![c] =
                       [cols[c] EXCEPT !.synced = TRUE,
                                       !.health.SyncReceived = TRUE]]
        /\ UNCHANGED <<engineVars, events, offered, now, sweepPc, nextSweep,
                       lastSweep, cfgVars, callVars, retryVars, evalVars, reloadVars,
                       deviceVars, loopVars>>

\* A receive loop that emits its error and goes on receiving.
receiveFailedKeepsRunning(col, err) ==
    [col EXCEPT !.errors = emitError(@, err)]

\* The two failure branches of Collector.receiveUpdates: emitError, return.
receiveFailed(col, err) ==
    [col EXCEPT !.rx = @ - 1, !.errors = emitError(@, err)]

\* Recv returns an error, or the device sends a subscribe error: emitError
\* and return.
StreamLoss ==
    \E c \in DOMAIN cols :
        /\ cols[c].rx > 0
        /\ ~DoneClosed(cols[c])
        /\ losses < MaxLosses
        /\ losses' = losses + 1
        /\ cols' = [cols EXCEPT ![c] = receiveFailed(cols[c], "receive update")]
        /\ UNCHANGED <<engineVars, events, offered, now, sweepPc, nextSweep,
                       lastSweep, cfgVars, callVars, retryVars, evalVars, reloadVars,
                       reachable, sent, lastReceived, chanDropped, evaluated,
                       loopVars>>

\* The context is cancelled: the loop returns at its select, or Recv fails
\* and the loop emits the error before it returns.
ReceiveCancelled ==
    \E c \in DOMAIN cols, atRecv \in BOOLEAN :
        /\ cols[c].rx > 0
        /\ DoneClosed(cols[c])
        /\ cols' = [cols EXCEPT ![c] =
                       [cols[c] EXCEPT
                           !.rx = @ - 1,
                           !.errors = IF atRecv
                                      THEN emitError(@, "receive update")
                                      ELSE @]]
        /\ UNCHANGED <<engineVars, events, offered, now, sweepPc, nextSweep,
                       lastSweep, cfgVars, callVars, retryVars, evalVars, reloadVars,
                       deviceVars, loopVars>>

\* The device or the path to it goes down or comes back.
Reachability ==
    /\ reachable' = ~reachable
    /\ UNCHANGED <<engineVars, events, offered, now, sweepPc, nextSweep,
                   lastSweep, cfgVars, callVars, retryVars, evalVars, supVars, sent, losses,
                   lastReceived, chanDropped, evaluated, loopVars>>

(***************************************************************************)
(* The update goroutine of startCollector.                                 *)
(***************************************************************************)
\* The notifications of the model carry one update: the oper-status of an
\* interface.
NotificationUpdates(notif) ==
    <<Update(InterfacePath(notif.iface, "oper-status"), notif.val)>>

\* for _, change := range changes { alertEngine.ProcessStateChange(change) }
RECURSIVE ProcessStateChanges(_, _)
ProcessStateChanges(queue, changes) ==
    IF changes = <<>>
    THEN [events |-> queue, dropped |-> 0]
    ELSE LET rest == ProcessStateChanges(
                         ProcessStateChange(queue, Head(changes)),
                         Tail(changes))
         IN  [events |-> rest.events,
              dropped |-> rest.dropped
                          + (IF Len(queue) < MaxQueue THEN 0 ELSE 1)]

\* The device of the startup configuration and one more.
Devices == {DeviceName, "d2"}

StartupDevices == {DeviceName}

\* eval.EvaluateNotification(name, notification).  The evaluator keeps the
\* configuration it was created with: a device that is not declared there
\* is skipped.
\* An evaluator that were given the configuration of every reload.
EvaluatorDevicesReloaded(atStartup, inUse) == inUse

\* e.config.DesiredState.Devices: the evaluator holds the configuration
\* NewEvaluator was given at startup, whatever the server uses by now.
EvaluatorDevices(atStartup, inUse) == atStartup

EvaluateFor(deviceName, updates) ==
    IF deviceName \in EvaluatorDevices(StartupDevices, apiConfig)
    THEN EvaluateNotification(stateCache, desired, deviceName, <<>>,
                              updates, now)
    ELSE [cache |-> stateCache, changes |-> <<>>]

Evaluate(deviceName, notif) ==
    EvaluateFor(deviceName, NotificationUpdates(notif))

\* What the wildcard subscription to interfaces/interface[name=*]/state
\* brings: the two leaves the evaluator reads, of declared interfaces and
\* of one that is not declared, and paths outside the pattern.
ReportedInterfaces == DeviceInterfaces(desired) \cup {"Gi1/0/2"}

OtherPaths ==
    {<<PathElem("interfaces", ""), PathElem("interface", "Gi1/0/1"),
       PathElem("state", ""), PathElem("mtu", "")>>,
     <<PathElem("interfaces", ""), PathElem("interface", "Gi1/0/1"),
       PathElem("state", ""), PathElem("counters", ""),
       PathElem("in-octets", "")>>,
     <<PathElem("interfaces", ""), PathElem("interface", "Gi1/0/1"),
       PathElem("config", ""), PathElem("oper-status", "")>>,
     <<PathElem("interfaces", ""), PathElem("interface", ""),
       PathElem("state", ""), PathElem("oper-status", "")>>,
     <<PathElem("interfaces", ""), PathElem("interface", "Gi1/0/1"),
       PathElem("state", "")>>,
     <<PathElem("system", ""), PathElem("state", ""),
       PathElem("hostname", "")>>}

ReportedUpdates ==
    {Update(InterfacePath(iface, leaf), val) :
        iface \in ReportedInterfaces, leaf \in FedLeaves, val \in FedValues}
        \cup {Update(path, "DOWN") : path \in OtherPaths}

\* A notification of two updates of some device is taken from
\* c.Updates() and evaluated.
FeedMixed ==
    /\ ~panicked
    /\ Len(fed) < MaxMixed
    /\ pending = <<>>
    /\ \E device \in Devices, u1 \in ReportedUpdates, u2 \in ReportedUpdates :
          LET result == EvaluateFor(device, <<u1, u2>>)
          IN  /\ stateCache' = result.cache
              /\ pending' = result.changes
              /\ fed' = Append(fed, [device |-> device,
                                     updates |-> <<u1, u2>>, at |-> now])
    /\ UNCHANGED <<engineVars, events, offered, now, sweepPc, nextSweep,
                   lastSweep, cfgVars, callVars, mainVars, dropped>>

\* case notification := <-c.Updates().  The select may take this case while
\* Done is closed as well.
UpdateTake ==
    \E c \in DOMAIN cols :
        /\ cols[c].upc = "select"
        /\ cols[c].updateChan # <<>>
        /\ cols' = [cols EXCEPT ![c] =
                       [cols[c] EXCEPT !.updateChan = Tail(@),
                                       !.heldUpdate = Head(cols[c].updateChan),
                                       !.upc = "eval"]]
        /\ UNCHANGED <<engineVars, events, offered, now, sweepPc, nextSweep,
                       lastSweep, cfgVars, callVars, retryVars, evalVars, reloadVars, deviceVars,
                       loopVars>>

\* eval.EvaluateNotification and the forwarding of its changes.
UpdateEval ==
    \E c \in DOMAIN cols :
        LET result == Evaluate(cols[c].device, cols[c].heldUpdate)
            forwarded == ProcessStateChanges(events, result.changes)
        IN  /\ cols[c].upc = "eval"
            /\ stateCache' = result.cache
            /\ events' = forwarded.events
            /\ dropped' = dropped + forwarded.dropped
            /\ evaluated' = Append(evaluated,
                                   [device |-> cols[c].device,
                                    n |-> cols[c].heldUpdate.n])
            /\ cols' = [cols EXCEPT ![c] =
                           [cols[c] EXCEPT !.heldUpdate = NoNotification,
                                           !.upc = "select"]]
            /\ UNCHANGED <<engineVars, offered, now, sweepPc, nextSweep,
                           lastSweep, cfgVars, callVars, retryVars, pending, fed, reloadVars,
                           reachable, sent, losses, lastReceived, chanDropped,
                           loopVars>>

\* case <-c.Done() of the update goroutine.
UpdateExit ==
    \E c \in DOMAIN cols :
        /\ cols[c].upc = "select"
        /\ DoneClosed(cols[c])
        /\ cols' = [cols EXCEPT ![c].upc = "exit"]
        /\ UNCHANGED <<engineVars, events, offered, now, sweepPc, nextSweep,
                       lastSweep, cfgVars, callVars, retryVars, evalVars, reloadVars, deviceVars,
                       loopVars>>

(***************************************************************************)
(* Engine.Run once per go alertEngine.Run(): every call adds a loop on the *)
(* event channel and, with flap detection on, a ticker goroutine.  A loop  *)
(* receives an event and then processes it under the engine's mutex.       *)
(***************************************************************************)
Run(loops) == loops + 1

RunTicker(tasks) == IF flapEnabled THEN tasks + 1 ELSE tasks

\* for ev := range e.events
LoopTake ==
    /\ events # <<>>
    /\ Cardinality(held) < engineLoops
    /\ events' = Tail(events)
    /\ takes' = takes + 1
    /\ held' = held \cup {[ticket |-> takes + 1, ev |-> Head(events)]}
    /\ UNCHANGED <<engineVars, offered, now, sweepPc, nextSweep, lastSweep,
                   cfgVars, callVars, retryVars, evalVars, supVars, deviceVars, engineLoops,
                   sweepTasks, processed>>

\* e.process(ev)
LoopProcess ==
    \E h \in held :
        /\ held' = held \ {h}
        /\ processed' = Append(processed, h)
        /\ IF h.ev.Firing
           THEN ProcessFiring(h.ev, now)
           ELSE ProcessResolve(h.ev, now)
        /\ UNCHANGED <<events, offered, escalations, now, sweepPc, nextSweep,
                       lastSweep, cfgVars, callVars, retryVars, evalVars, supVars, deviceVars,
                       engineLoops, sweepTasks, takes>>

(***************************************************************************)
(* Engine.Stop and the end of Engine.Run.                                  *)
(***************************************************************************)
\* EscalationManager.Stop: cancel and delete every timer of the map.
StopEscalation(t) ==
    [timers |-> EmptyMap,
     procs |-> {IF (\E k \in DOMAIN timers : timers[k] = p.id)
                   /\ p.cancelledAt = NoTime
                THEN [p EXCEPT !.cancelledAt = t] ELSE p : p \in timerProcs}]

\* Engine.Stop: e.escalation.Stop() when there is a manager, then
\* close(e.events).
Stop ==
    /\ ~panicked
    /\ ~stopped
    /\ LET esc == IF HasEscalation THEN StopEscalation(now)
                  ELSE [timers |-> timers, procs |-> timerProcs]
       IN  /\ timers' = esc.timers
           /\ timerProcs' = esc.procs
    /\ stopped' = TRUE
    /\ UNCHANGED <<activeAlerts, lastFired, history, flapping, nextTimer,
                   sink, escalations, lastChange, events, offered, now,
                   sweepPc, nextSweep, lastSweep, cfgVars, requestVars,
                   panicked,
                   resolveCalls, mainVars, evalVars>>

\* for ev := range e.events ends: the channel is closed and empty.
LoopExit ==
    /\ ~panicked
    /\ stopped
    /\ events = <<>>
    /\ engineLoops > Cardinality(held)
    /\ engineLoops' = engineLoops - 1
    /\ UNCHANGED <<engineVars, events, offered, now, sweepPc, nextSweep,
                   lastSweep, cfgVars, callVars, evalVars, supVars,
                   deviceVars, retryVars, sweepTasks, held, takes,
                   processed>>

(***************************************************************************)
(* The reload function of main (Server.handleReload calls it) and          *)
(* startCollector.                                                         *)
(***************************************************************************)
\* What the model keeps of a configuration directory: whether its files
\* parse and pass the checks on addresses, credentials and channels, the
\* devices they declare and the interfaces declared under each device.
ConfigDir(wellFormed, devices) ==
    [wellFormed |-> wellFormed, Devices |-> devices, Interfaces |-> IntentA]

\* The startup devices with other interfaces.
ConfigDirWith(interfaces) ==
    [ConfigDir(TRUE, StartupDevices) EXCEPT !.Interfaces = interfaces]

\* Members without a member policy, and a desired state that is not one of
\* the two literals.
IntentNoPolicy ==
    [x \in {"Po1"} |-> InterfaceConfig("up", "", <<"Gi1/0/49">>)]

IntentBadState == [x \in {"Gi1/0/1"} |-> InterfaceConfig("UP", "", <<>>)]

\* Scenario A with a second interface declared.
IntentAdded ==
    [x \in {"Gi1/0/1", "Gi1/0/2"} |-> InterfaceConfig("up", "", <<>>)]

\* The directories of a reload that adds a device, or an interface to the
\* startup device.
AddingDirs == {ConfigDir(TRUE, Devices), ConfigDirWith(IntentAdded)}

\* The directories whose interface declarations a reload has to judge.
InterfaceDirs ==
    {ConfigDirWith(i) :
        i \in {IntentA, IntentB, IntentE, IntentEMembers, IntentMin,
                IntentSelf, IntentNoPolicy, IntentBadState}}

\* The checks of ValidateConfig on the interfaces of a device.
ValidInterfaces(interfaces) ==
    \A n \in DOMAIN interfaces :
        LET ifCfg == interfaces[n]
        IN  /\ ifCfg.DesiredState \in {"up", "down"}
            /\ ifCfg.AdminState \in {"", "enabled", "disabled"}
            /\ Len(ifCfg.Members) > 0 =>
                   /\ ifCfg.MemberPolicy # NoPolicy
                   /\ ifCfg.MemberPolicy.Mode \in
                          {"all_active", "min_active", "per_stack_minimum"}
                   /\ ifCfg.MemberPolicy.Mode = "min_active"
                          => ifCfg.MemberPolicy.Minimum > 0

\* The directories a reload is given: files that do not parse, no device,
\* the startup devices again, and the startup devices replaced by another.
ConfigDirs ==
    {ConfigDir(FALSE, {}), ConfigDir(TRUE, {}),
     ConfigDir(TRUE, StartupDevices),
     ConfigDir(TRUE, Devices \ StartupDevices)}

\* ValidateConfig: a configuration without devices is rejected.
ValidateConfig(dir) ==
    /\ dir.wellFormed
    /\ dir.Devices # {}
    /\ ValidInterfaces(dir.Interfaces)

\* A loader that returned whatever the files declare.
LoadConfigDirUnchecked(dir) == [err |-> FALSE, Devices |-> dir.Devices]

\* config.LoadConfigDir: the configuration, or an error.
LoadConfigDir(dir) ==
    IF ValidateConfig(dir)
    THEN [err |-> FALSE, Devices |-> dir.Devices]
    ELSE [err |-> TRUE, Devices |-> {}]

\* The collectors of the devices that left the configuration.
\* A reload that forgot no device.
RemovedDevicesNone(map, newCfg) == {}

\* for name, col := range collectors: the devices the new configuration
\* does not declare.
RemovedDevices(map, newCfg) == {d \in DOMAIN map : d \notin newCfg.Devices}

CloseCollectors(cs, ids) ==
    [i \in DOMAIN cs |-> IF i \in ids THEN Close(cs[i]) ELSE cs[i]]

DeleteDevices(map, devices) ==
    [d \in DOMAIN map \ devices |-> map[d]]

\* A startCollector that stores the new collector over the one the map
\* holds, without closing it.
startCollectorOver(state, deviceName) ==
    LET started == Append(state.cols, NewCollector(deviceName))
    IN  [cols |-> started,
         collectors |-> Put(state.collectors, deviceName, Len(started))]

\* startCollector: close the collector the map holds for the device, create
\* a new one, store it and launch its two goroutines.
startCollector(state, deviceName) ==
    LET existing == IF deviceName \in DOMAIN state.collectors
                    THEN {state.collectors[deviceName]} ELSE {}
        closed == CloseCollectors(state.cols, existing)
        started == Append(closed, NewCollector(deviceName))
    IN  [cols |-> started,
         collectors |-> Put(state.collectors, deviceName, Len(started))]

\* The loop of the reload function over the devices of the new
\* configuration: existing.Close(), then startCollector.
RECURSIVE RestartCollectors(_, _)
RestartCollectors(state, devices) ==
    IF devices = <<>>
    THEN state
    ELSE LET d == Head(devices)
             existing == IF d \in DOMAIN state.collectors
                         THEN {state.collectors[d]} ELSE {}
             closed == [state EXCEPT
                           !.cols = CloseCollectors(state.cols, existing)]
         IN  RestartCollectors(startCollector(closed, d), Tail(devices))

\* A reload that rebuilt the evaluator would start from an empty cache.
ReloadedCacheFresh(cache) == EmptyMap

\* What reload leaves of the evaluator's cache: the evaluator is not
\* rebuilt.
ReloadedCache(cache) == cache

\* The reload function with a configuration that loads.
Reload ==
    LET newCfg == LoadConfigDir(configDir)
        removed == RemovedDevices(collectors, newCfg)
        kept == [cols |-> CloseCollectors(cols,
                              {collectors[d] : d \in removed}),
                 collectors |-> DeleteDevices(collectors, removed)]
        after == RestartCollectors(kept, SetToSeq(newCfg.Devices))
    IN  /\ reloads < MaxReloads
        /\ ~newCfg.err
        /\ reloads' = reloads + 1
        /\ engineLoops' = Run(engineLoops)
        /\ sweepTasks' = RunTicker(sweepTasks)
        /\ cols' = after.cols
        /\ collectors' = after.collectors
        /\ apiConfig' = newCfg.Devices
        /\ lastReload' = "ok"
        /\ stateCache' = ReloadedCache(stateCache)
        /\ UNCHANGED <<engineVars, events, offered, now, sweepPc, nextSweep,
                       lastSweep, cfgVars, callVars, retryVars, pending, fed, dropped, configDir,
                       deviceVars, held, takes, processed>>

\* The reload function when LoadConfigDir returns an error.
ReloadFailed ==
    /\ reloads < MaxReloads
    /\ LoadConfigDir(configDir).err
    /\ reloads' = reloads + 1
    /\ lastReload' = "error"
    /\ UNCHANGED <<engineVars, events, offered, now, sweepPc, nextSweep,
                   lastSweep, cfgVars, callVars, retryVars, evalVars, collectors, cols, configDir,
                   apiConfig, deviceVars, loopVars>>

(***************************************************************************)
(* time.Duration is an int64 count of nanoseconds.  A word is its 64 bits, *)
(* bit i of weight 2^i, bit 63 the sign (two's complement), and the        *)
(* operators below are Go's <<, >, + on int64, which wrap around.          *)
(***************************************************************************)
WordBits == 64

Bits == 0 .. (WordBits - 1)

SignBit == WordBits - 1

ZeroWord == [i \in Bits |-> 0]

\* The int64 of a natural below 2^31.
Word(k) == [i \in Bits |-> IF i < 31 THEN (k \div (2 ^ i)) % 2 ELSE 0]

\* w << n: the bits shifted out are lost, a count of 64 or more leaves 0.
Shl(w, n) == [i \in Bits |-> IF i >= n THEN w[i - n] ELSE 0]

Negative(w) == w[SignBit] = 1

\* a < b on int64.
Less(a, b) ==
    IF a[SignBit] # b[SignBit]
    THEN Negative(a)
    ELSE \E i \in Bits :
            /\ a[i] < b[i]
            /\ \A j \in Bits : j > i => a[j] = b[j]

\* The carry into bit i: some lower bit generates one and every bit between
\* passes it on.
Carry(a, b, i) ==
    IF \E j \in Bits :
          /\ j < i
          /\ a[j] + b[j] = 2
          /\ \A k \in Bits : (j < k /\ k < i) => a[k] + b[k] >= 1
    THEN 1
    ELSE 0

\* a + b on int64.
Add(a, b) == [i \in Bits |-> (a[i] + b[i] + Carry(a, b, i)) % 2]

\* defaultBackoffMin = 2 * time.Second, defaultBackoffMax = 120 *
\* time.Second (120e9 = 1875000000 * 2^6), the backoff of NewCollector.
defaultBackoffMin == Word(2000000000)

defaultBackoffMax == Shl(Word(1875000000), 6)

\* rand.Int63n(int64(Min)) returns any value of [0, Min): the smallest two
\* and the largest.
Jitters == {Word(0), Word(1), Word(1999999999)}

backoffDuration(n, jitter) ==
    IF n <= 0
    THEN defaultBackoffMin
    ELSE LET shifted == Shl(defaultBackoffMin, n)
             capped == IF Less(defaultBackoffMax, shifted)
                       THEN defaultBackoffMax
                       ELSE shifted
         IN  Add(capped, jitter)

\* Connect is entered: attempt := 0.
ConnectCalled ==
    /\ attempt # 0
    /\ attempt' = 0
    /\ backoff' = ZeroWord
    /\ UNCHANGED <<engineVars, events, offered, now, sweepPc, nextSweep,
                   lastSweep, cfgVars, callVars, evalVars, supVars, deviceVars,
                   loopVars>>

\* connectOnce failed: attempt++ and the delay of the next try.
ConnectRetry ==
    /\ attempt < MaxAttempts
    /\ \E jitter \in Jitters :
        /\ attempt' = attempt + 1
        /\ backoff' = backoffDuration(attempt + 1, jitter)
    /\ UNCHANGED <<engineVars, events, offered, now, sweepPc, nextSweep,
                   lastSweep, cfgVars, callVars, evalVars, supVars, deviceVars,
                   loopVars>>

\* No Connect is in its retry loop.
RetryIdle ==
    /\ attempt = 0
    /\ backoff = ZeroWord

(***************************************************************************)
(* The engine and the evaluator on their own: no collector, one loop.      *)
(***************************************************************************)
\* The requests of POST /api/reload that may be in progress together.
Requests == 1 .. MaxRequests

\* A request that has not arrived: pc is the position of its call of the
\* reload function, newCfg the devices it loaded, todo the devices its
\* loop has still to visit, existing what it read from the map (0: nil).
NoRequest == [pc |-> "idle", newCfg |-> {}, todo |-> <<>>, existing |-> 0]

\* main before the signal: pc is its position, visited the devices its
\* loop over the collectors map has passed.
Running == [pc |-> "wait", visited |-> {}]

MainIdle ==
    /\ collectors = EmptyMap
    /\ cols = <<>>
    /\ configDir = ConfigDir(TRUE, {})
    /\ apiConfig = {}
    /\ reloads = 0
    /\ lastReload = "none"
    /\ reachable = TRUE
    /\ sent = 0
    /\ losses = 0
    /\ lastReceived = [d \in Devices |-> NoNotification]
    /\ chanDropped = 0
    /\ evaluated = <<>>
    /\ engineLoops = Run(0)
    /\ sweepTasks = RunTicker(0)
    /\ held = {}
    /\ takes = 0
    /\ processed = <<>>
    /\ RetryIdle
    /\ sinkUp = TRUE
    /\ stopped = FALSE
    /\ panicked = FALSE
    /\ resolveCalls = <<>>
    /\ reloading = [r \in Requests |-> NoRequest]
    /\ shutdown = Running

(***************************************************************************)
(* The engine with producers on its event channel.                         *)
(***************************************************************************)
Init ==
    /\ activeAlerts = EmptyMap
    /\ lastFired = EmptyMap
    /\ history = EmptyMap
    /\ flapping = {}
    /\ timers = EmptyMap
    /\ timerProcs = {}
    /\ nextTimer = 1
    /\ events = <<>>
    /\ offered = 0
    /\ sink = <<>>
    /\ escalations = <<>>
    /\ lastChange = EmptyMap
    /\ now = 0
    /\ sweepPc = "ticker"
    /\ nextSweep = SweepPeriod
    /\ lastSweep = NoTime
    /\ flapEnabled = TRUE
    /\ channelCfg = ChannelsF
    /\ desired = IntentA
    /\ stateCache = EmptyMap
    /\ pending = <<>>
    /\ fed = <<>>
    /\ dropped = 0
    /\ MainIdle

Next ==
    \/ Send
    \/ Process
    \/ SweepCleanup
    \/ SweepRecovery
    \/ TimerCancelled
    \/ TimerExpired
    \/ TimerEscalate
    \/ TimerClear
    \/ Tick

Spec == Init /\ [][Next]_vars

(***************************************************************************)
(* The engine behind the evaluator, with Engine.Stop called at some point. *)
(***************************************************************************)
NextStop ==
    \/ FeedOper
    \/ Forward
    \/ Process
    \/ Stop
    \/ LoopExit
    \/ SweepCleanup
    \/ SweepRecovery
    \/ TimerCancelled
    \/ TimerExpired
    \/ TimerEscalate
    \/ TimerClear
    \/ Tick

SpecStop == Init /\ [][NextStop]_vars

(***************************************************************************)
(* The pipeline: notification -> evaluator -> ProcessStateChange -> engine. *)
(***************************************************************************)
\* Flap detection is off and no channel has an escalation delay (Scenarios
\* A to C): Run starts no ticker and NewEngine builds no manager.
NextPipeline ==
    \/ Feed
    \/ Forward
    \/ Process
    \/ Tick

PipelineCreated ==
    /\ flapEnabled = FALSE
    /\ channelCfg = ChannelsPlain
    /\ activeAlerts = EmptyMap
    /\ lastFired = EmptyMap
    /\ history = EmptyMap
    /\ flapping = {}
    /\ timers = EmptyMap
    /\ timerProcs = {}
    /\ nextTimer = 1
    /\ events = <<>>
    /\ offered = 0
    /\ sink = <<>>
    /\ escalations = <<>>
    /\ lastChange = EmptyMap
    /\ now = 0
    /\ sweepPc = "ticker"
    /\ nextSweep = SweepPeriod
    /\ lastSweep = NoTime
    /\ stateCache = EmptyMap
    /\ pending = <<>>
    /\ fed = <<>>
    /\ dropped = 0
    /\ MainIdle

InitPipeline ==
    /\ desired \in {IntentA, IntentB}
    /\ PipelineCreated

SpecPipeline == InitPipeline /\ [][NextPipeline]_vars

(***************************************************************************)
(* The pipeline behind a device that reports admin-status as UP or DOWN or *)
(* as ENABLED.                                                             *)
(***************************************************************************)
NextOper ==
    \/ Feed
    \/ FeedAdminEnabled
    \/ Forward
    \/ Process

SpecOper == InitPipeline /\ [][NextOper]_vars

(***************************************************************************)
(* The pipeline of a device with a port-channel.                           *)
(***************************************************************************)
ChannelIntents == {IntentE, IntentEMembers, IntentMin, IntentSelf}

InitChannel ==
    /\ desired \in ChannelIntents
    /\ PipelineCreated

\* The notifications arrive within one unit of time.
NextChannel ==
    \/ Feed
    \/ Forward
    \/ Process

SpecChannel == InitChannel /\ [][NextChannel]_vars

(***************************************************************************)
(* The engine of the pipeline's configuration in front of a sink that      *)
(* refuses deliveries from time to time.                                   *)
(***************************************************************************)
NextSink ==
    \/ Send
    \/ Process
    \/ Tick
    \/ SinkAvailability

SpecSink == InitPipeline /\ [][NextSink]_vars

(***************************************************************************)
(* The same with the loop of Engine.Run in two steps: it receives an       *)
(* event, and it is inside process (the sink call included) until          *)
(* LoopProcess.  The Go runtime lets a goroutine that can run, run.        *)
(***************************************************************************)
NextQueue ==
    \/ Feed
    \/ Forward
    \/ LoopTake
    \/ LoopProcess
    \/ Tick

SpecQueue == InitPipeline /\ [][NextQueue]_vars

FairQueue == SpecQueue /\ WF_vars(LoopTake) /\ WF_vars(LoopProcess)

(***************************************************************************)
(* main: the collectors of the configured devices, their goroutines, the   *)
(* reload function and the engine loops, within one tick of the clock.     *)
(***************************************************************************)
\* NewEngine and NewEvaluator, flap detection on, no escalation delay.
EngineCreated ==
    /\ flapEnabled = TRUE
    /\ channelCfg = ChannelsPlain
    /\ desired = IntentA
    /\ activeAlerts = EmptyMap
    /\ lastFired = EmptyMap
    /\ history = EmptyMap
    /\ flapping = {}
    /\ timers = EmptyMap
    /\ timerProcs = {}
    /\ nextTimer = 1
    /\ events = <<>>
    /\ offered = 0
    /\ sink = <<>>
    /\ escalations = <<>>
    /\ lastChange = EmptyMap
    /\ now = 0
    /\ sweepPc = "ticker"
    /\ nextSweep = SweepPeriod
    /\ lastSweep = NoTime
    /\ stateCache = EmptyMap
    /\ pending = <<>>
    /\ fed = <<>>
    /\ dropped = 0

\* main up to its wait for a signal: go alertEngine.Run() and one
\* startCollector per configured device.
MainStarted ==
    /\ apiConfig = StartupDevices
    /\ LET started == RestartCollectors(
                          [cols |-> <<>>, collectors |-> EmptyMap],
                          SetToSeq(StartupDevices))
       IN  cols = started.cols /\ collectors = started.collectors
    /\ reloads = 0
    /\ lastReload = "none"
    /\ sent = 0
    /\ losses = 0
    /\ lastReceived = [d \in Devices |-> NoNotification]
    /\ chanDropped = 0
    /\ evaluated = <<>>
    /\ engineLoops = Run(0)
    /\ sweepTasks = RunTicker(0)
    /\ held = {}
    /\ takes = 0
    /\ processed = <<>>
    /\ RetryIdle
    /\ sinkUp = TRUE
    /\ stopped = FALSE
    /\ panicked = FALSE
    /\ resolveCalls = <<>>
    /\ reloading = [r \in Requests |-> NoRequest]
    /\ shutdown = Running

\* The configuration directory holds whatever the operator left in it.
InitSupervisor ==
    /\ EngineCreated
    /\ MainStarted
    /\ reachable = TRUE
    /\ configDir \in ConfigDirs

NextSupervisor ==
    \/ ConnectEnter
    \/ ConnectAttempt
    \/ ConnectCancelled
    \/ Dial
    \/ AssignConn
    \/ Subscribe
    \/ HealthUpdate
    \/ RetryWaitElapsed
    \/ MonitorError
    \/ SupervisorClosed
    \/ WaitElapsed
    \/ Receive
    \/ StreamLoss
    \/ ReceiveCancelled
    \/ UpdateTake
    \/ UpdateEval
    \/ UpdateExit
    \/ LoopTake
    \/ LoopProcess
    \/ Reload
    \/ ReloadFailed

SpecSupervisor == InitSupervisor /\ [][NextSupervisor]_vars

(***************************************************************************)
(* Reloads of directories that differ in the interfaces they declare,     *)
(* with the connection goroutines of the collectors they stop and start.   *)
(***************************************************************************)
InitValidate ==
    /\ EngineCreated
    /\ MainStarted
    /\ reachable = TRUE
    /\ configDir \in InterfaceDirs

NextValidate ==
    \/ ConnectEnter
    \/ ConnectAttempt
    \/ ConnectCancelled
    \/ Dial
    \/ AssignConn
    \/ Subscribe
    \/ HealthUpdate
    \/ SupervisorClosed
    \/ ReceiveCancelled
    \/ Reload
    \/ ReloadFailed

SpecValidate == InitValidate /\ [][NextValidate]_vars

(***************************************************************************)
(* A reload that adds a device or an interface, and the notifications of   *)
(* the collectors before and after it.                                     *)
(***************************************************************************)
InitAdding ==
    /\ EngineCreated
    /\ MainStarted
    /\ reachable = TRUE
    /\ configDir \in AddingDirs

NextAdding ==
    \/ ConnectEnter
    \/ ConnectAttempt
    \/ ConnectCancelled
    \/ Dial
    \/ AssignConn
    \/ Subscribe
    \/ HealthUpdate
    \/ SupervisorClosed
    \/ ReceiveAny
    \/ ReceiveCancelled
    \/ UpdateTake
    \/ UpdateEval
    \/ UpdateExit
    \/ LoopTake
    \/ LoopProcess
    \/ Reload

SpecAdding == InitAdding /\ [][NextAdding]_vars

(***************************************************************************)
(* A collector from its creation to its Close: the device comes and goes,  *)
(* streams break, and a reload of the unchanged configuration closes the   *)
(* collector and starts its successor.                                     *)
(***************************************************************************)
InitCollector ==
    /\ EngineCreated
    /\ MainStarted
    /\ reachable = TRUE
    /\ configDir = ConfigDir(TRUE, StartupDevices)

NextCollector ==
    \/ ConnectEnter
    \/ ConnectAttempt
    \/ ConnectCancelled
    \/ Dial
    \/ AssignConn
    \/ Subscribe
    \/ HealthUpdate
    \/ RetryWaitElapsed
    \/ MonitorError
    \/ SupervisorClosed
    \/ WaitElapsed
    \/ Receive
    \/ StreamLoss
    \/ ReceiveCancelled
    \/ Reachability
    \/ UpdateTake
    \/ UpdateEval
    \/ UpdateExit
    \/ Reload

SpecCollector == InitCollector /\ [][NextCollector]_vars

(***************************************************************************)
(* The sessions of a collector that nobody closes, with the sync response  *)
(* the device sends on each stream once its first updates are out.         *)
(***************************************************************************)
NextSession ==
    \/ ConnectEnter
    \/ ConnectAttempt
    \/ Dial
    \/ AssignConn
    \/ Subscribe
    \/ HealthUpdate
    \/ RetryWaitElapsed
    \/ MonitorError
    \/ WaitElapsed
    \/ Receive
    \/ SyncResponse
    \/ StreamLoss
    \/ Reachability
    \/ UpdateTake
    \/ UpdateEval

SpecSession == InitCollector /\ [][NextSession]_vars

(***************************************************************************)
(* The same under the scheduling of the Go runtime: while a goroutine of a *)
(* collector can take a step (its select has a ready case, its call        *)
(* returns, its timer has fired), a goroutine of that collector eventually *)
(* takes one.  Nothing is assumed of the operator or of the streams; the   *)
(* device is either up or down for the whole run.                          *)
(***************************************************************************)
InitFairCollector ==
    /\ EngineCreated
    /\ MainStarted
    /\ reachable \in BOOLEAN
    /\ configDir = ConfigDir(TRUE, StartupDevices)

NextFairCollector ==
    \/ ConnectEnter
    \/ ConnectAttempt
    \/ ConnectCancelled
    \/ Dial
    \/ AssignConn
    \/ Subscribe
    \/ HealthUpdate
    \/ RetryWaitElapsed
    \/ MonitorError
    \/ SupervisorClosed
    \/ WaitElapsed
    \/ Receive
    \/ StreamLoss
    \/ ReceiveCancelled
    \/ UpdateTake
    \/ UpdateEval
    \/ UpdateExit
    \/ Reload

CollectorIds == 1..(Cardinality(StartupDevices) * (MaxReloads + 1))

\* A step of one of the goroutines of collector c: its connection
\* goroutine, its receive loop once the context is cancelled, its update
\* goroutine at its select.
CollectorStep(c) ==
    /\ \/ ConnectEnter
       \/ ConnectAttempt
       \/ ConnectCancelled
       \/ Dial
       \/ AssignConn
       \/ Subscribe
       \/ HealthUpdate
       \/ RetryWaitElapsed
       \/ MonitorError
       \/ SupervisorClosed
       \/ WaitElapsed
       \/ ReceiveCancelled
       \/ UpdateTake
       \/ UpdateExit
    /\ c \in DOMAIN cols
    /\ cols'[c] # cols[c]

\* The update goroutine of collector c is inside EvaluateNotification and
\* the forwarding loop: only UpdateEval, which is then enabled, leaves it.
Evaluating(c) == c \in DOMAIN cols /\ cols[c].upc = "eval"

\* Weak fairness of the steps of each collector; for UpdateEval in the
\* form "the goroutine does not stay in the call forever".
GoScheduling ==
    \A c \in CollectorIds :
        /\ WF_vars(CollectorStep(c))
        /\ []<>(~Evaluating(c))

FairCollector ==
    InitFairCollector /\ [][NextFairCollector]_vars /\ GoScheduling

(***************************************************************************)
(* The retry loop of Connect against a device that refuses every attempt.  *)
(***************************************************************************)
InitBackoff ==
    /\ EngineCreated
    /\ MainIdle

NextBackoff ==
    \/ ConnectRetry
    \/ ConnectCalled

SpecBackoff == InitBackoff /\ [][NextBackoff]_vars

(***************************************************************************)
(* The pipeline behind a device that sends the interface in the prefix of  *)
(* some notifications and in the path of others.                           *)
(***************************************************************************)
NextPrefix ==
    \/ Feed
    \/ FeedPrefixed
    \/ Forward
    \/ Process

SpecPrefix == InitPipeline /\ [][NextPrefix]_vars

(***************************************************************************)
(* The pipeline fed with everything the subscription brings.               *)
(***************************************************************************)
NextMixed ==
    \/ FeedMixed
    \/ Forward
    \/ Process

SpecMixed == InitPipeline /\ [][NextMixed]_vars

(***************************************************************************)
(* The pipeline with callers of Engine.ResolveAlert.                       *)
(***************************************************************************)
NextResolve ==
    \/ Feed
    \/ Forward
    \/ Process
    \/ ResolveCalled
    \/ Tick

SpecResolve == InitPipeline /\ [][NextResolve]_vars

(***************************************************************************)
(* The pipeline with flap detection on, fed by the periodic samples of the *)
(* subscription.                                                           *)
(***************************************************************************)
InitFlap ==
    /\ EngineCreated
    /\ MainIdle

NextFlap ==
    \/ FeedSample
    \/ Forward
    \/ Process
    \/ SweepCleanup
    \/ SweepRecovery
    \/ Tick

SpecFlap == InitFlap /\ [][NextFlap]_vars

(***************************************************************************)
(* What the claims speak about.                                            *)
(***************************************************************************)
Identity(alert) == <<alert.Device, alert.Entity, alert.AlertType>>

KindIdentities == {<<DeviceName, e, k>> : e \in Entities, k \in Kinds}

\* The fire and resolve deliveries of one identity, in the sink's order.
SinkOf(id) ==
    SelectSeq(sink, LAMBDA d : Identity(d.alert) = id /\ ~d.escalated)

FiringCount(id) ==
    Len(SelectSeq(SinkOf(id), LAMBDA d : d.alert.State = "firing"))

ResolvedCount(id) ==
    Len(SelectSeq(SinkOf(id), LAMBDA d : d.alert.State = "resolved"))

\* The step is Engine.process taking the head of the channel.
ProcessStep == events # <<>> /\ events' = Tail(events)

(***************************************************************************)
(* C1: in every reachable state of the engine the active-alert table holds *)
(* at most one alert in state firing per identity (device, entity, kind),  *)
(* the flapping_detected alert counting as (device, entity,                *)
(* flapping_detected).                                                     *)
(***************************************************************************)
C1_OneFiringPerIdentity ==
    \A k1, k2 \in DOMAIN activeAlerts :
        (/\ activeAlerts[k1].State = "firing"
         /\ activeAlerts[k2].State = "firing"
         /\ Identity(activeAlerts[k1]) = Identity(activeAlerts[k2]))
        => k1 = k2

\* A flapping_detected alert and a per-kind alert of the same entity are in
\* the table after firing events, a resolve and a sweep.
C1_Witness ==
    /\ \E e \in Entities, k \in Kinds :
          /\ FlapAlertKey(DeviceName, e) \in DOMAIN activeAlerts
          /\ AlertKey(DeviceName, e, k) \in DOMAIN activeAlerts
    /\ \E i \in 1..Len(sink) : sink[i].alert.State = "resolved"
    /\ lastSweep # NoTime

(***************************************************************************)
(* C2: while a flapping_detected alert is in the active-alert table for an *)
(* entity, no firing alert of another kind for that device and entity is   *)
(* delivered to the sink.                                                  *)
(***************************************************************************)
C2_NoDeliveryWhileFlapping ==
    [][\A i \in (Len(sink) + 1)..Len(sink') :
          (/\ sink'[i].alert.State = "firing"
           /\ sink'[i].alert.AlertType # FlapKind)
          => FlapAlertKey(sink'[i].alert.Device, sink'[i].alert.Entity)
                 \notin DOMAIN activeAlerts]_vars

(***************************************************************************)
(* C3: an interface with desired state up that reports oper-status UP,     *)
(* DOWN, UP, DOWN within the dedup window yields exactly one firing and    *)
(* exactly one resolved delivery of interface_state_mismatch; the UP after *)
(* the first DOWN resolves the alert and removes it from the table.        *)
(***************************************************************************)
FedOper(script) ==
    /\ Len(fed) = Len(script)
    /\ \A i \in 1..Len(script) :
          /\ fed[i].iface = "Gi1/0/1"
          /\ fed[i].leaf = "oper-status"
          /\ fed[i].val = script[i]

Quiescent == pending = <<>> /\ events = <<>> /\ dropped = 0

MismatchId == <<DeviceName, "Gi1/0/1", "interface_state_mismatch">>

C3_ScenarioC ==
    /\ (desired = IntentA /\ FedOper(<<"UP", "DOWN", "UP">>) /\ Quiescent)
       => AlertKey(DeviceName, "Gi1/0/1", "interface_state_mismatch")
              \notin DOMAIN activeAlerts
    /\ (/\ desired = IntentA
        /\ FedOper(<<"UP", "DOWN", "UP", "DOWN">>)
        /\ Quiescent
        /\ now - fed[1].at < DedupWindow)
       => (FiringCount(MismatchId) = 1 /\ ResolvedCount(MismatchId) = 1)

(***************************************************************************)
(* C4: for an admin-status update of a declared interface with a declared  *)
(* desired admin state the evaluator emits one interface_admin_down        *)
(* StateChange iff the new normalized value differs from the value         *)
(* observed before the update, is non-empty and differs from the desired   *)
(* admin state.                                                            *)
(***************************************************************************)
AdminDownCount(r) ==
    Cardinality({i \in 1..Len(r.kinds) : r.kinds[i] = "interface_admin_down"})

AdminDownExpected(r) ==
    LET new == normalizeState(r.val)
    IN  /\ new # r.adminBefore
        /\ new # ""
        /\ new # normalizeState(desired[r.iface].AdminState)

C4_AdminDownEmitted ==
    \A i \in 1..Len(fed) :
        (fed[i].leaf = "admin-status" /\ desired[fed[i].iface].AdminState # "")
        => AdminDownCount(fed[i]) = (IF AdminDownExpected(fed[i]) THEN 1 ELSE 0)

(***************************************************************************)
(* C5: once flapping_detected fires for an entity and no further firing    *)
(* events arrive for it, a later sweep resolves it: after a completed      *)
(* sweep that ran when every change of the entity had left the flap        *)
(* window, no flapping_detected alert of the entity is in the table.       *)
(***************************************************************************)
C5_SweepResolvesFlap ==
    \A e \in Entities :
        (/\ EntityKey(DeviceName, e) \in DOMAIN lastChange
         /\ lastSweep # NoTime
         /\ lastSweep >= lastChange[EntityKey(DeviceName, e)] + FlapWindow)
        => FlapAlertKey(DeviceName, e) \notin DOMAIN activeAlerts

(***************************************************************************)
(* C6: when the escalation timer of a still-firing alert expires, the      *)
(* alert, marked escalated, is delivered to the sink on every routed       *)
(* channel that has an escalation delay.                                   *)
(***************************************************************************)
EscalatedOn(alert, ch) ==
    \E j \in 1..Len(sink) :
        /\ sink[j].escalated
        /\ Identity(sink[j].alert) = Identity(alert)
        /\ sink[j].alert.FiredAt = alert.FiredAt
        /\ sink[j].channels = <<ch>>

C6_EscalationDelivered ==
    \A i \in 1..Len(escalations) :
        escalations[i].active
        => \A c \in 1..Len(escalations[i].channels) :
               EscalatedOn(escalations[i].alert, escalations[i].channels[c])

LastFiringAt(id) ==
    LET fires == SelectSeq(SinkOf(id), LAMBDA d : d.alert.State = "firing")
    IN  IF fires = <<>> THEN NoTime ELSE fires[Len(fires)].alert.FiredAt

C8_DedupIdempotent ==
    \A id \in KindIdentities :
        LET fires == SelectSeq(SinkOf(id), LAMBDA d : d.alert.State = "firing")
            key == AlertKey(id[1], id[2], id[3])
        IN  /\ \A i, j \in 1..Len(fires) :
                  i < j => fires[j].alert.FiredAt - fires[i].alert.FiredAt
                               >= DedupWindow
            /\ key \in DOMAIN lastFired <=> fires # <<>>
            /\ key \in DOMAIN lastFired => lastFired[key] = LastFiringAt(id)
            /\ key \in DOMAIN activeAlerts
                   => activeAlerts[key].FiredAt = lastFired[key]

\* Two firing events of one identity were processed, the second later than
\* the first and inside the window: one delivery, one entry, the first time.
C8_Witness ==
    \E e \in Entities, k \in Kinds :
        LET key == AlertKey(DeviceName, e, k)
            changes == HistoryOf(EntityKey(DeviceName, e))
        IN  /\ offered = 2
            /\ events = <<>>
            /\ Len(changes) = 2
            /\ Len(sink) = 1
            /\ sink[1].alert.State = "firing"
            /\ DOMAIN activeAlerts = {key}
            /\ lastFired[key] = changes[1]
            /\ changes[2] > changes[1]
            /\ changes[2] - changes[1] < DedupWindow

(***************************************************************************)
(* C9: a resolve event for an identity with no entry in the active-alert   *)
(* table leaves the table, the dedup ledger and the escalation timers      *)
(* unchanged and delivers nothing; so every resolved delivery of an        *)
(* identity directly follows a firing delivery of it.                      *)
(***************************************************************************)
ResolveOfAbsent ==
    /\ ProcessStep
    /\ ~Head(events).Firing
    /\ AlertKey(Head(events).Device, Head(events).Entity,
                Head(events).AlertType) \notin DOMAIN activeAlerts

ResolvedFollowsFiring ==
    \A id \in KindIdentities :
        \A i \in 1..Len(SinkOf(id)) :
            SinkOf(id)[i].alert.State = "resolved"
            => (i > 1 /\ SinkOf(id)[i - 1].alert.State = "firing")

C9_ResolveIdempotent ==
    /\ []ResolvedFollowsFiring
    /\ [][ResolveOfAbsent
             => UNCHANGED <<activeAlerts, lastFired, timers, timerProcs,
                            sink>>]_vars

\* One fire and two resolve events were processed: one resolved delivery.
C9_Witness ==
    /\ offered = 3
    /\ events = <<>>
    /\ Len(sink) = 2
    /\ sink[1].alert.State = "firing"
    /\ sink[2].alert.State = "resolved"
    /\ Identity(sink[1].alert) = Identity(sink[2].alert)
    /\ activeAlerts = EmptyMap
    /\ lastSweep = NoTime
    /\ DOMAIN history # {}
    /\ \A k \in DOMAIN history : Len(history[k]) = 1

(***************************************************************************)
(* C10: per identity the sink never sees a firing delivery followed by     *)
(* another firing delivery without a resolved delivery in between.         *)
(***************************************************************************)
C10_NoRefireWithoutResolve ==
    \A id \in KindIdentities :
        \A i \in 2..Len(SinkOf(id)) :
            SinkOf(id)[i].alert.State = "firing"
            => SinkOf(id)[i - 1].alert.State = "resolved"

(***************************************************************************)
(* C11: per device and interface, notifications are evaluated, and their   *)
(* StateChanges forwarded to the engine, in the order they were received   *)
(* from the device, and once every received notification was evaluated     *)
(* the cache holds the value of the notification received last; this       *)
(* across reconnects and across a reload that replaces the collector.      *)
(***************************************************************************)
EvaluatedInOrder(device) ==
    \A i, j \in DOMAIN evaluated :
        /\ i < j
        /\ evaluated[i].device = device
        /\ evaluated[j].device = device
        => evaluated[i].n < evaluated[j].n

AllEvaluated(device) ==
    /\ lastReceived[device] # NoNotification
    /\ chanDropped = 0
    /\ \A c \in DOMAIN cols :
           cols[c].device = device
           => cols[c].updateChan = <<>> /\ cols[c].upc # "eval"

C11_OrderPreserved ==
    \A d \in StartupDevices :
        /\ EvaluatedInOrder(d)
        /\ AllEvaluated(d)
           => CacheGet(stateCache, CacheKey(d, "Gi1/0/1")).OperStatus
              = normalizeState(lastReceived[d].val)

(***************************************************************************)
(* C12: one engine loop consumes the event queue whatever the number of    *)
(* reloads, at most one flap-sweep task exists, and two events of one      *)
(* identity are processed in the order they were enqueued.                 *)
(***************************************************************************)
ProcessedInOrder ==
    \A i, j \in DOMAIN processed :
        /\ i < j
        /\ AlertKey(processed[i].ev.Device, processed[i].ev.Entity,
                    processed[i].ev.AlertType)
           = AlertKey(processed[j].ev.Device, processed[j].ev.Entity,
                      processed[j].ev.AlertType)
        => processed[i].ticket < processed[j].ticket

C12_SingleEngineLoop ==
    /\ engineLoops = 1
    /\ sweepTasks <= 1
    /\ ProcessedInOrder

(***************************************************************************)
(* C13: a step of the reload function and a step of a collector's          *)
(* connection task or receive loop (a reconnect) leave the evaluator's     *)
(* observation cache and the engine's active-alert table as they were.     *)
(***************************************************************************)
ReloadStep == reloads' = reloads + 1

ReconnectStep ==
    \E c \in DOMAIN cols :
        \/ cols'[c].pc # cols[c].pc
        \/ cols'[c].conn # cols[c].conn
        \/ cols'[c].client # cols[c].client
        \/ cols'[c].rx # cols[c].rx
        \/ cols'[c].health # cols[c].health

C13_ReloadReconnectPreserve ==
    [][ReloadStep \/ ReconnectStep
         => stateCache' = stateCache /\ activeAlerts' = activeAlerts]_vars

\* An observation and an active alert are held, the configuration was
\* reloaded, and a collector is streaming again after a stream loss.
C13_Witness ==
    /\ stateCache # EmptyMap
    /\ activeAlerts # EmptyMap
    /\ lastReload = "ok"
    /\ losses > 0
    /\ \E c \in DOMAIN cols : Streaming(cols[c]) /\ cols[c].health.Connected

(***************************************************************************)
(* C14: after a successful reload the collector set names exactly the      *)
(* devices of the new configuration, every collector the set held before   *)
(* is closed, and every device of the new configuration has one new,       *)
(* not-closed collector whose connection task and update task are at       *)
(* their start.  At any time the collectors that are not closed are the    *)
(* entries of the set.                                                     *)
(***************************************************************************)
ReloadSucceeded == reloads' = reloads + 1 /\ lastReload' = "ok"

NewCollectors == DOMAIN cols' \ DOMAIN cols

AfterReload ==
    /\ DOMAIN collectors' = LoadConfigDir(configDir).Devices
    /\ \A d \in DOMAIN collectors : DoneClosed(cols'[collectors[d]])
    /\ \A d \in DOMAIN collectors' :
           /\ collectors'[d] \in NewCollectors
           /\ cols'[collectors'[d]] = NewCollector(d)
    /\ \A c \in NewCollectors : collectors'[cols'[c].device] = c

OpenCollectorsAreEntries ==
    /\ DOMAIN collectors = apiConfig
    /\ \A c \in DOMAIN cols :
           ~DoneClosed(cols[c])
           <=> /\ cols[c].device \in DOMAIN collectors
               /\ collectors[cols[c].device] = c

ReloadOfBadConfig == reloads' = reloads + 1 /\ ~ValidateConfig(configDir)

C15_FailedReloadChangesNothing ==
    [][ReloadOfBadConfig
         => /\ lastReload' = "error"
            /\ UNCHANGED <<collectors, cols, apiConfig, engineLoops,
                           sweepTasks, engineVars, evalVars>>]_vars

\* A reload failed while the startup collector streams: the set, the
\* configuration in use and the single engine loop are those of startup.
C15_Witness ==
    /\ lastReload = "error"
    /\ reloads = 1
    /\ ~ValidateConfig(configDir)
    /\ DOMAIN collectors = StartupDevices
    /\ apiConfig = StartupDevices
    /\ Len(cols) = 1
    /\ Streaming(cols[1])
    /\ engineLoops = 1

(***************************************************************************)
(* C16: once a collector is closed, under fair scheduling its connection   *)
(* task, its update task and its receive loop all exit, wherever each      *)
(* was, and no connection attempt (connectOnce) is started for it.         *)
(***************************************************************************)
TasksExited(col) == col.pc = "exit" /\ col.upc = "exit" /\ col.rx = 0

ClosedCollector(c) == c \in DOMAIN cols /\ cols[c].done

ExitedCollector(c) == c \in DOMAIN cols /\ TasksExited(cols[c])

NoAttemptAfterClose ==
    \A c \in DOMAIN cols :
        cols[c].done /\ cols'[c].pc = "dial" => cols[c].pc = "dial"

CloseIdempotent(col) == Close(Close(col)) = Close(col)

TornDown(col) ==
    /\ col.conn # "open"
    /\ col.client # "open"
    /\ col.dialed # "open"
    /\ col.leaked = 0

SessionLost(col) ==
    /\ ~col.done
    /\ col.rx = 0
    /\ \/ col.pc = "monitor" /\ col.errors # <<>>
       \/ col.pc = "cooldown"

C18_HealthFollowsSession ==
    \A c \in DOMAIN cols :
        /\ ~cols[c].done /\ cols[c].health.Connected => Streaming(cols[c])
        /\ SessionLost(cols[c])
           => /\ ~cols[c].health.Connected
              /\ cols[c].health.LastError # ""

(***************************************************************************)
(* C19: when the dial, the creation of the subscribe stream or the send    *)
(* of the subscribe request fails on a collector that is not closed,       *)
(* Connect returns the failure and the connection task goes to its own     *)
(* backoff sleep; Connect does not wait and retry by itself.               *)
(***************************************************************************)
AttemptFailed(c) ==
    /\ ~cols[c].done
    /\ cols[c].pc \in {"dial", "subscribe"}
    /\ cols'[c].pc \notin {"dial", "dialed", "subscribe", "connected"}

C19_FailureReturnsToSupervisor ==
    [][\A c \in DOMAIN cols :
           AttemptFailed(c) => cols'[c].pc = "backoff"]_vars

(***************************************************************************)
(* C20: under fair scheduling, after a stream loss on a collector that is  *)
(* not closed the connection task consumes the error, waits the cooldown   *)
(* and connects again: with the device reachable the session returns to    *)
(* Streaming, and a notification received afterwards is taken for          *)
(* evaluation.                                                             *)
(***************************************************************************)
StreamLost(c) ==
    /\ c \in DOMAIN cols
    /\ ~cols[c].done
    /\ cols[c].rx = 0
    /\ cols[c].pc \in {"monitor", "cooldown"}

Recovered(c) ==
    /\ c \in DOMAIN cols
    /\ \/ Streaming(cols[c])
       \/ cols[c].done
       \/ ~reachable

ReceivedAfterLoss(c) ==
    /\ c \in DOMAIN cols
    /\ losses > 0
    /\ Streaming(cols[c])
    /\ cols[c].updateChan # <<>>

TakenOrClosed(c) ==
    c \in DOMAIN cols /\ (cols[c].updateChan = <<>> \/ cols[c].done)

C20_StreamLossRecovers ==
    \A c \in CollectorIds :
        /\ StreamLost(c) ~> Recovered(c)
        /\ ReceivedAfterLoss(c) ~> TakenOrClosed(c)

\* A collector streams again after a stream loss and a notification
\* received on the new session was evaluated.
C20_Witness ==
    \E c \in DOMAIN cols :
        /\ losses > 0
        /\ Streaming(cols[c])
        /\ cols[c].errors = <<>>
        /\ cols[c].updateChan = <<>>
        /\ cols[c].upc = "select"
        /\ lastReceived[cols[c].device] # NoNotification
        /\ evaluated # <<>>
        /\ evaluated[Len(evaluated)].n = lastReceived[cols[c].device].n
        /\ sent = 1

(***************************************************************************)
(* C21: every delay backoffDuration returns to the retry loop of Connect,  *)
(* for an attempt n >= 1, lies in [2 s, 122 s): never negative, never zero *)
(* and never below the minimum backoff.                                    *)
(***************************************************************************)
BackoffCeiling == Add(defaultBackoffMax, defaultBackoffMin)

C21_BackoffInRange ==
    attempt >= 1 =>
        /\ ~Less(backoff, defaultBackoffMin)
        /\ Less(backoff, BackoffCeiling)

\* The attempts on which the shift has not yet left the 64 bits.
C21_SmallAttempts ==
    (attempt >= 1 /\ attempt <= 32) =>
        /\ ~Less(backoff, defaultBackoffMin)
        /\ Less(backoff, BackoffCeiling)

C21_Negative == ~(attempt >= 1 /\ Negative(backoff))

C21_BelowMinimum ==
    ~(attempt >= 1 /\ ~Negative(backoff) /\ Less(backoff, defaultBackoffMin))

(***************************************************************************)
(* C22: whatever the interleaving of Connect's health update with the      *)
(* receive loop that connectOnce started, Health().SyncReceived is true    *)
(* from the moment the sync response of the current session is received    *)
(* until the next connect, and false from the connect until then.          *)
(***************************************************************************)
SessionEstablished(col) == Streaming(col) /\ col.pc = "monitor"

C22_SyncReceivedFollowsMarker ==
    \A c \in DOMAIN cols :
        SessionEstablished(cols[c])
            => cols[c].health.SyncReceived = cols[c].synced

\* The half that holds in the code: SyncReceived is never reported for a
\* session whose sync response has not arrived.
C22_NoSyncBeforeMarker ==
    \A c \in DOMAIN cols :
        SessionEstablished(cols[c]) /\ ~cols[c].synced
            => ~cols[c].health.SyncReceived

(***************************************************************************)
(* C23: a notification that arrives while the updates channel is full is   *)
(* dropped without stopping the receive loop, the queued notifications     *)
(* keep their content and order, and the drop is counted; a notification   *)
(* that arrives while the channel has room is appended at its tail.        *)
(***************************************************************************)
Arrived(c) ==
    /\ sent' = sent + 1
    /\ lastReceived'[cols[c].device] # lastReceived[cols[c].device]

ChannelFull(col) == Len(col.updateChan) = MaxUpdates

\* The health of the collector tells the dropped notification from one
\* that was queued.
DropCounted(c) ==
    cols'[c].health # NotificationCounted(cols[c].health)

DroppedUnblocked(c) ==
    /\ cols'[c].updateChan = cols[c].updateChan
    /\ cols'[c].rx = cols[c].rx

AppendedAtTail(c) ==
    cols'[c].updateChan =
        Append(cols[c].updateChan, lastReceived'[cols[c].device])

C23_FullChannelDropsAndCounts ==
    [][\A c \in DOMAIN cols :
           Arrived(c) =>
               IF ChannelFull(cols[c])
               THEN DroppedUnblocked(c) /\ DropCounted(c)
               ELSE AppendedAtTail(c)]_vars

\* The claim without its counter.
C23_FullChannelDrops ==
    [][\A c \in DOMAIN cols :
           Arrived(c) =>
               IF ChannelFull(cols[c])
               THEN DroppedUnblocked(c)
               ELSE AppendedAtTail(c)]_vars

(***************************************************************************)
(* C24: ProcessStateChange returns at once, also while the engine loop is  *)
(* inside a sink call: on a full queue the new event is dropped and the    *)
(* queue is unchanged, otherwise the event is appended; and an event that  *)
(* was offered is lost in no other way: it is dropped on a full queue, or  *)
(* it is queued, received by the loop and processed.                       *)
(***************************************************************************)
Offer == pending # <<>> /\ pending' = Tail(pending)

QueueFull == Len(events) = MaxQueue

OfferRule ==
    Offer =>
        IF QueueFull
        THEN events' = events /\ dropped' = dropped + 1
        ELSE /\ events' = Append(events, StateChangeEvent(Head(pending)))
             /\ dropped' = dropped

\* Events offered and not yet processed, events processed, events dropped.
InFlight == Len(pending) + Len(events) + Cardinality(held)

NothingElseLost ==
    /\ fed' = fed =>
           InFlight' + Len(processed') + dropped'
               = InFlight + Len(processed) + dropped
    /\ dropped' # dropped => Offer /\ QueueFull
    /\ \E more \in {<<>>} \cup {<<h>> : h \in held} :
           processed' = processed \o more

C24_DropOnlyWhenFull ==
    /\ [][OfferRule /\ NothingElseLost]_vars
    /\ []<>(events = <<>> /\ held = {})

\* An event has been dropped, the queue is full again and the loop is
\* inside process with an event it received earlier.
C24_Witness ==
    /\ dropped > 0
    /\ QueueFull
    /\ held # {}
    /\ processed # <<>>

\* Refuted: no event is dropped while the loop is inside process.
C24_NoDropWhileStalled == [][~(dropped' > dropped /\ held # {})]_vars

(***************************************************************************)
(* C25: a firing alert whose delivery the sink refuses leaves the engine   *)
(* as a delivered one does: the alert is in the active table, its dedup    *)
(* timestamp is recorded, the delivery is attempted once and not again,    *)
(* and a later resolve event resolves the alert and removes it.            *)
(***************************************************************************)
HeadKey == AlertKey(Head(events).Device, Head(events).Entity,
                    Head(events).AlertType)

FiresHead ==
    /\ ProcessStep
    /\ Head(events).Firing
    /\ ~Deduplicated(HeadKey, now)

ResolvesHead ==
    /\ ProcessStep
    /\ ~Head(events).Firing
    /\ HeadKey \in DOMAIN activeAlerts

FailedDeliveries ==
    {i \in 1..Len(sink) : sink[i].failed}

FailedFiring(key) ==
    \E i \in FailedDeliveries :
        /\ sink[i].alert = activeAlerts[key]
        /\ sink[i].alert.State = "firing"

FiredAsDelivered ==
    FiresHead =>
        /\ activeAlerts' = Put(activeAlerts, HeadKey,
                               NewAlert(Head(events), now))
        /\ lastFired' = Put(lastFired, HeadKey, now)
        /\ Len(sink') = Len(sink) + 1
        /\ sink'[Len(sink')].failed = ~sinkUp

NoRetry == ~ProcessStep => sink' = sink

ResolveAfterFailure ==
    (ResolvesHead /\ FailedFiring(HeadKey)) =>
        /\ HeadKey \notin DOMAIN activeAlerts'
        /\ Len(sink') = Len(sink) + 1
        /\ sink'[Len(sink')].alert.State = "resolved"

MembersOf(ch) == {desired[ch].Members[i] : i \in 1..Len(desired[ch].Members)}

ChannelsOf(iface) ==
    {ch \in DOMAIN desired :
        MembersOf(ch) # {} /\ (ch = iface \/ iface \in MembersOf(ch))}

ObservedUp(cache, member) ==
    /\ CacheKey(DeviceName, member) \in DOMAIN cache
    /\ cache[CacheKey(DeviceName, member)].OperStatus = "up"

ExpectedChannelKinds(cache, ch) ==
    LET up == {m \in MembersOf(ch) : ObservedUp(cache, m)}
        mode == desired[ch].MemberPolicy.Mode
    IN  IF mode = "all_active" /\ up # MembersOf(ch)
        THEN <<"port_channel_member_down">>
        ELSE IF mode = "min_active"
                /\ Cardinality(up) < desired[ch].MemberPolicy.Minimum
        THEN <<"port_channel_down">>
        ELSE <<>>

ChannelKinds == {"port_channel_member_down", "port_channel_down"}

ChannelEvents(changes, ch) ==
    SelectSeq(changes,
              LAMBDA c : c.Interface = ch /\ c.AlertType \in ChannelKinds)

KindsOf(changes) == [i \in 1..Len(changes) |-> changes[i].AlertType]

\* The step evaluates an oper-status update of a declared interface.
OperUpdate ==
    /\ Len(fed') = Len(fed) + 1
    /\ fed'[Len(fed')].leaf = "oper-status"
    /\ fed'[Len(fed')].iface \in DOMAIN desired

ChannelEventsAsExpected ==
    \A ch \in ChannelsOf(fed'[Len(fed')].iface) :
        KindsOf(ChannelEvents(pending', ch))
            = ExpectedChannelKinds(stateCache', ch)

C26_OneEventPerViolatedChannel ==
    [][OperUpdate => ChannelEventsAsExpected]_vars

\* The same for the configurations in which no channel requires itself.
C26_WithoutSelfMembership ==
    [][(OperUpdate /\ desired # IntentSelf) => ChannelEventsAsExpected]_vars

(***************************************************************************)
(* C27: Scenario E.  Device d1 declares Po1 (desired up, required members  *)
(* Gi1/0/49 and Gi1/0/50, all_active).  Oper-status UP for both members    *)
(* delivers no alert; DOWN for Gi1/0/49 after them delivers exactly one    *)
(* firing port_channel_member_down alert on Po1 whose related state names  *)
(* Gi1/0/49, and only it, as the member that is down.                      *)
(***************************************************************************)
OperFed(i, iface, val) ==
    /\ fed[i].iface = iface
    /\ fed[i].leaf = "oper-status"
    /\ fed[i].val = val

BothMembersUp ==
    /\ Len(fed) >= 2
    /\ \/ OperFed(1, "Gi1/0/49", "UP") /\ OperFed(2, "Gi1/0/50", "UP")
       \/ OperFed(1, "Gi1/0/50", "UP") /\ OperFed(2, "Gi1/0/49", "UP")

Drained == pending = <<>> /\ events = <<>> /\ dropped = 0

MemberDownFirings ==
    SelectSeq(sink,
              LAMBDA d : /\ d.alert.AlertType = "port_channel_member_down"
                         /\ d.alert.Entity = "Po1"
                         /\ d.alert.State = "firing")

ScenarioE ==
    /\ (BothMembersUp /\ Len(fed) = 2 /\ Drained) => sink = <<>>
    /\ (BothMembersUp /\ Len(fed) = 3 /\ OperFed(3, "Gi1/0/49", "DOWN")
           /\ Drained)
        => /\ Len(MemberDownFirings) = 1
           /\ MemberDownFirings[1].alert.RelatedState
                  = [down_members |-> <<"Gi1/0/49">>]

C27_ScenarioE == desired \in {IntentE, IntentEMembers} => ScenarioE

\* Scenario E with the members declared as interfaces of d1.
C27_MembersDeclared == desired = IntentEMembers => ScenarioE

(***************************************************************************)
(* C28: validation returns an error for every configuration in which the   *)
(* required members of an interface name an interface that is not          *)
(* declared under the same device.                                         *)
(***************************************************************************)
UndeclaredMember(interfaces) ==
    \E n \in DOMAIN interfaces :
        \E i \in 1..Len(interfaces[n].Members) :
            interfaces[n].Members[i] \notin DOMAIN interfaces

C28_UndeclaredMemberRejected ==
    [][(reloads' = reloads + 1 /\ UndeclaredMember(configDir.Interfaces))
          => lastReload' = "error"]_vars

\* What validation does reject: members without a member policy.
C28_NoPolicyRejected ==
    [][(reloads' = reloads + 1 /\ configDir.Interfaces = IntentNoPolicy)
          => lastReload' = "error"]_vars

(***************************************************************************)
(* C29: an oper-status update of a declared interface yields no            *)
(* interface_state_mismatch when a desired admin state is declared and the *)
(* admin observation cached at that moment is non-empty and differs from   *)
(* it; otherwise it yields exactly one when the new oper value, lower-case *)
(* and trimmed, differs from the desired state, and none when it equals    *)
(* it.                                                                     *)
(***************************************************************************)
LastFed == fed'[Len(fed')]

Canonical(val) ==
    CASE val = "UP" -> "up"
      [] val = "DOWN" -> "down"
      [] val = "ENABLED" -> "enabled"

Mismatches(changes) ==
    Len(SelectSeq(changes,
                  LAMBDA c : c.AlertType = "interface_state_mismatch"))

AdminSuppresses(ifCfg, admin) ==
    ifCfg.AdminState # "" /\ admin # "" /\ admin # ifCfg.AdminState

ExpectedMismatches(ifCfg, admin, oper) ==
    IF AdminSuppresses(ifCfg, admin) THEN 0
    ELSE IF oper # ifCfg.DesiredState THEN 1
    ELSE 0

UpFed == Len(fed) >= 1 /\ OperFed(1, "Gi1/0/1", "UP")

UpThenDownFed ==
    /\ Len(fed) = 2
    /\ OperFed(1, "Gi1/0/1", "UP")
    /\ OperFed(2, "Gi1/0/1", "DOWN")

ScenarioAAlert(alert) ==
    /\ alert.State = "firing"
    /\ alert.AlertType = "interface_state_mismatch"
    /\ alert.Severity = "critical"
    /\ alert.Device = "d1"
    /\ alert.Entity = "Gi1/0/1"
    /\ alert.RelatedState.expected_state = "up"
    /\ alert.RelatedState.actual_state = "down"

C30_ScenarioA ==
    desired = IntentA =>
        /\ (UpFed /\ Len(fed) = 1 /\ Drained) => sink = <<>>
        /\ (UpThenDownFed /\ Drained)
               => Len(sink) = 1 /\ ScenarioAAlert(sink[1].alert)

\* UP and DOWN were fed and evaluated, and the alert is at the sink.
C30_Witness ==
    /\ desired = IntentA
    /\ UpThenDownFed
    /\ Drained
    /\ sink # <<>>

(***************************************************************************)
(* C31: after Engine.Stop no escalation timer is pending, no escalation is *)
(* delivered, and a state change offered to ProcessStateChange neither     *)
(* starts a timer nor crashes its caller.                                  *)
(***************************************************************************)
\* A goroutine of the escalation manager that may still escalate.
PendingTimer(p) == p.cancelledAt = NoTime \/ p.pc # "select"

NoTimerPending == timers = EmptyMap /\ \A p \in timerProcs : ~PendingTimer(p)

NoEscalationAfterStop ==
    \A i \in 1..Len(escalations) : ~escalations[i].afterStop

C31_StopIsFinal ==
    /\ stopped => NoTimerPending
    /\ NoEscalationAfterStop
    /\ ~panicked

\* The parts of C31 one by one.
C31_NoTimerAfterStop == stopped => NoTimerPending

C31_NoEscalationAfterStop == NoEscalationAfterStop

C31_NoCrashAfterStop == ~panicked

(***************************************************************************)
(* C32: each flap episode of an entity yields one flapping_detected firing *)
(* delivery: between two such deliveries for the same device and entity    *)
(* there is a flapping_detected resolved delivery; and a per-kind firing   *)
(* event suppressed while the entity is flapping leaves the dedup ledger   *)
(* and the per-kind entries of the active-alert table unchanged.           *)
(***************************************************************************)
FlapDelivery(i, entity, state) ==
    /\ sink[i].alert.AlertType = FlapKind
    /\ sink[i].alert.Device = DeviceName
    /\ sink[i].alert.Entity = entity
    /\ sink[i].alert.State = state

FlapEpisodesSeparated ==
    \A e \in Entities : \A i, j \in 1..Len(sink) :
        (i < j /\ FlapDelivery(i, e, "firing") /\ FlapDelivery(j, e, "firing"))
        => \E k \in (i + 1)..(j - 1) : FlapDelivery(k, e, "resolved")

\* process takes a firing event and RecordChange reports the entity flapping.
SuppressedByFlap ==
    /\ Process
    /\ Head(events).Firing
    /\ flapEnabled
    /\ RecordChange(EntityKey(Head(events).Device, Head(events).Entity),
                    now).isFlapping

PerKindEntries(table) ==
    [k \in {x \in DOMAIN table : table[x].AlertType # FlapKind} |-> table[k]]

SuppressedLeavesLedger ==
    SuppressedByFlap
    => /\ lastFired' = lastFired
       /\ PerKindEntries(activeAlerts') = PerKindEntries(activeAlerts)

C32_OneFlapAlertPerEpisode ==
    /\ []FlapEpisodesSeparated
    /\ [][SuppressedLeavesLedger]_vars

\* The parts of C32 one by one.
C32_FlapEpisodesSeparated == FlapEpisodesSeparated

C32_SuppressedLeavesLedger == [][SuppressedLeavesLedger]_vars

(***************************************************************************)
(* C33: flapping_detected is raised for an entity only if its observed     *)
(* state changed at least FlapThreshold times within the flap window; an   *)
(* interface that stays in one deviating state and is re-reported by the   *)
(* periodic samples is never declared flapping.                            *)
(***************************************************************************)
OperSample(i, entity) ==
    fed[i].iface = entity /\ fed[i].leaf = "oper-status"

\* The sample differs from the one before it for the entity, or is the
\* first one.
Transition(i, entity) ==
    /\ OperSample(i, entity)
    /\ \A h \in 1..(i - 1) :
          (OperSample(h, entity)
              /\ \A m \in (h + 1)..(i - 1) : ~OperSample(m, entity))
          => normalizeState(fed[h].val) # normalizeState(fed[i].val)

TransitionsWithin(entity, t) ==
    Cardinality({i \in 1..Len(fed) :
                    /\ Transition(i, entity)
                    /\ After(fed[i].at, t - FlapWindow)
                    /\ fed[i].at <= t})

C33_FlapNeedsTransitions ==
    \A e \in Entities : \A j \in 1..Len(sink) :
        FlapDelivery(j, e, "firing")
        => TransitionsWithin(e, sink[j].at) >= FlapThreshold

\* The second half of C33 alone.
SteadyDeviation(entity) ==
    \A i \in 1..Len(fed) : OperSample(i, entity) => fed[i].val = "DOWN"

C33_SteadyNeverFlaps ==
    \A e \in Entities :
        SteadyDeviation(e)
        => \A j \in 1..Len(sink) : ~FlapDelivery(j, e, "firing")

(***************************************************************************)
(* C34: ResolveAlert(device, entity, kind) for an identity that was fired  *)
(* through ProcessStateChange and is still firing marks it resolved and    *)
(* delivers one recovery notification, and the identity is no longer among *)
(* GetActiveAlerts().                                                      *)
(***************************************************************************)
LastResolveCall == resolveCalls'[Len(resolveCalls')]

\* The identity of the call is among the firing alerts.
ActiveIdentity(table, call) ==
    \E alert \in GetActiveAlerts(table) :
        Identity(alert) = <<call.Device, call.Entity, call.AlertType>>

ResolveOfFiring ==
    /\ Len(resolveCalls') = Len(resolveCalls) + 1
    /\ ActiveIdentity(activeAlerts, LastResolveCall)

OneRecovery ==
    /\ Len(sink') = Len(sink) + 1
    /\ SubSeq(sink', 1, Len(sink)) = sink
    /\ sink'[Len(sink')].alert.State = "resolved"
    /\ Identity(sink'[Len(sink')].alert)
           = <<LastResolveCall.Device, LastResolveCall.Entity,
               LastResolveCall.AlertType>>

C34_ResolveAlertFindsFired ==
    [][ResolveOfFiring
          => OneRecovery /\ ~ActiveIdentity(activeAlerts', LastResolveCall)]_vars

(***************************************************************************)
(* C35: an update whose path has no interface key, in a notification whose *)
(* prefix has the interface element keyed by name, is evaluated like the   *)
(* update with the full keyed path: the same observation is written and    *)
(* the same StateChanges are emitted.                                      *)
(***************************************************************************)
AsWithFullPath ==
    LET full == EvaluateNotification(stateCache, desired, DeviceName, <<>>,
                    <<Update(InterfacePath(LastFed.iface, LastFed.leaf),
                             LastFed.val)>>, now)
    IN  /\ stateCache' = full.cache
        /\ pending' = full.changes

C35_PrefixKeyedLikeFullPath == [][FeedPrefixed => AsWithFullPath]_vars

\* The same for the updates that emit nothing with the full path either.
C35_PrefixKeyedObservationWritten ==
    [][FeedPrefixed /\ LastFed.iface \in DOMAIN desired
          => CacheKey(DeviceName, LastFed.iface) \in DOMAIN stateCache']_vars

(***************************************************************************)
(* C36: an update is a no-op for the evaluator (no StateChange, cache      *)
(* unchanged, no entry created) when its path is not                       *)
(* interfaces/interface[name]/state/{oper-status|admin-status}, or the     *)
(* device is not declared, or the interface is not declared for it; the    *)
(* other updates of the notification are evaluated all the same.           *)
(***************************************************************************)
MatchesPattern(path) ==
    /\ Len(path) = 4
    /\ path[1].Name = "interfaces"
    /\ path[2].Name = "interface" /\ path[2].Key # ""
    /\ path[3].Name = "state"
    /\ path[4].Name \in {"oper-status", "admin-status"}

Declared(device, update) ==
    /\ device \in StartupDevices
    /\ update.Path[2].Key \in DOMAIN desired

NoOp(device, update) ==
    ~MatchesPattern(update.Path) \/ ~Declared(device, update)

MixedFed == Len(fed') = Len(fed) + 1 /\ "updates" \in DOMAIN LastFed

\* The notification without its no-op updates, evaluated.
WithoutNoOps ==
    EvaluateFor(LastFed.device,
                SelectSeq(LastFed.updates,
                          LAMBDA u : ~NoOp(LastFed.device, u)))

C36_SkippedUpdatesAreNoOps ==
    [][MixedFed => /\ stateCache' = WithoutNoOps.cache
                   /\ pending' = WithoutNoOps.changes]_vars

\* A notification whose first update is a no-op and whose second one is
\* not has been evaluated on a cache that held an observation, and the
\* second update produced a StateChange.
C36_Witness ==
    /\ Len(fed) = 2
    /\ "updates" \in DOMAIN fed[2]
    /\ NoOp(fed[2].device, fed[2].updates[1])
    /\ ~NoOp(fed[2].device, fed[2].updates[2])
    /\ fed[1].device \in StartupDevices
    /\ stateCache # EmptyMap
    /\ pending # <<>>

(***************************************************************************)
(* C37: the evaluator keeps the configuration it was constructed with.     *)
(* After a reload that adds a device, or an interface to a device, the     *)
(* notifications about the new device or interface produce no StateChange  *)
(* and no cache entry, although a collector and an update task run for the *)
(* device.                                                                 *)
(***************************************************************************)
\* The update task of collector c evaluates the notification it holds.
EvaluatedBy(c) ==
    /\ cols[c].upc = "eval"
    /\ cols'[c].upc = "select"
    /\ Len(evaluated') = Len(evaluated) + 1

\* What the notification is about is declared by the reloaded
\* configuration and was not declared at startup.
AddedByReload(device, iface) ==
    /\ lastReload = "ok"
    /\ device \in apiConfig
    /\ iface \in DOMAIN configDir.Interfaces
    /\ device \notin StartupDevices \/ iface \notin DOMAIN IntentA

Connecting(col) ==
    col.pc \in {"connect", "attempt", "dial", "dialed", "subscribe",
                "retryWait"}

\* The connection goroutine waits before it calls Connect() again.
AwaitingConnect(col) == col.pc \in {"backoff", "cooldown"}

OneReceiveLoop == \A c \in DOMAIN cols : cols[c].rx <= 1

NoEarlierSession ==
    \A c \in DOMAIN cols :
        Connecting(cols[c]) \/ AwaitingConnect(cols[c]) =>
            cols[c].rx = 0 /\ cols[c].errors = <<>>

\* go c.receiveUpdates() at the end of connectOnce.
SessionStarts(c) == cols[c].pc = "subscribe" /\ cols'[c].pc = "connected"

SessionStartsClean ==
    \A c \in DOMAIN cols :
        SessionStarts(c) =>
            /\ cols[c].rx = 0
            /\ cols'[c].rx = 1
            /\ cols[c].errors = <<>>

C38_OneReceiveLoop ==
    /\ [](OneReceiveLoop /\ NoEarlierSession)
    /\ [][SessionStartsClean]_vars

\* A collector that lost a stream, reconnected, and runs the receive loop
\* of its second session.
C38_Witness ==
    \E c \in DOMAIN cols :
        /\ losses > 0
        /\ reloads = 0
        /\ DOMAIN cols = {c}
        /\ cols[c].pc = "monitor"
        /\ cols[c].rx = 1
        /\ cols[c].errors = <<>>
        /\ cols[c].reconnectDelay = InitialReconnectDelay
        /\ Streaming(cols[c])

(***************************************************************************)
(* The reload function and the shutdown of main, statement by statement:   *)
(* requests of POST /api/reload run in goroutines of their own, and the    *)
(* mutex of the collectors map is held only inside the removal loop, the   *)
(* lookup and startCollector.                                              *)
(***************************************************************************)
\* What the requests and the shutdown leave alone.
outsideMain == <<engineVars, events, offered, now, sweepPc, nextSweep,
                 lastSweep, cfgVars, stopped, panicked, resolveCalls,
                 retryVars, evalVars, deviceVars, held, takes, processed>>

\* The directories the requests find: files that do not parse, the startup
\* device, both devices, and the other device alone.
RequestDirs ==
    {ConfigDir(FALSE, {}), ConfigDir(TRUE, StartupDevices),
     ConfigDir(TRUE, Devices), ConfigDir(TRUE, Devices \ StartupDevices)}

\* The orders in which a range over a Go map may visit its keys.
RangeOrders(keys) ==
    {order \in UNION {[1 .. n -> keys] : n \in {Cardinality(keys)}} :
        {order[i] : i \in DOMAIN order} = keys}

\* The process is alive: main has not returned.
ProcessAlive == shutdown.pc # "exited"

\* A request in the reload function between its first and its last
\* access to the collectors map.
InReload(r) == reloading[r].pc \in {"remove", "lookup", "close", "start"}

\* LoadConfigDir and go alertEngine.Run() of the reload function.
ReloadLoad ==
    \E r \in Requests, dir \in RequestDirs :
        LET newCfg == LoadConfigDir(dir)
        IN  /\ ProcessAlive
            /\ reloading[r].pc = "idle"
            /\ configDir' = dir
            /\ reloads' = reloads + 1
            /\ IF newCfg.err
               THEN /\ reloading' = [reloading EXCEPT ![r].pc = "done"]
                    /\ lastReload' = "error"
                    /\ UNCHANGED <<engineLoops, sweepTasks>>
               ELSE /\ reloading' = [reloading EXCEPT
                                        ![r].pc = "remove",
                                        ![r].newCfg = newCfg.Devices]
                    /\ engineLoops' = Run(engineLoops)
                    /\ sweepTasks' = RunTicker(sweepTasks)
                    /\ UNCHANGED lastReload
            /\ UNCHANGED <<outsideMain, cols, collectors, apiConfig,
                           shutdown>>

\* The removal loop, under collectorsMu.
ReloadRemove ==
    \E r \in Requests :
        LET newCfg == [err |-> FALSE, Devices |-> reloading[r].newCfg]
            removed == RemovedDevices(collectors, newCfg)
        IN  /\ ProcessAlive
            /\ reloading[r].pc = "remove"
            /\ cols' = CloseCollectors(cols, {collectors[d] : d \in removed})
            /\ collectors' = DeleteDevices(collectors, removed)
            /\ \E order \in RangeOrders(reloading[r].newCfg) :
                   reloading' = [reloading EXCEPT ![r].pc = "lookup",
                                                  ![r].todo = order]
            /\ UNCHANGED <<outsideMain, configDir, apiConfig, reloads,
                           lastReload, engineLoops, sweepTasks, shutdown>>

\* existing := collectors[deviceName], under the read lock.
ReloadLookup ==
    \E r \in Requests :
        LET d == Head(reloading[r].todo)
            existing == IF d \in DOMAIN collectors THEN collectors[d] ELSE 0
        IN  /\ ProcessAlive
            /\ reloading[r].pc = "lookup"
            /\ reloading' = [reloading EXCEPT
                                ![r].existing = existing,
                                ![r].pc = IF existing # 0 THEN "close"
                                          ELSE "start"]
            /\ UNCHANGED <<outsideMain, reloadVars, cols, engineLoops,
                           sweepTasks, shutdown>>

\* existing.Close(), with no lock held.
ReloadCloseExisting ==
    \E r \in Requests :
        /\ ProcessAlive
        /\ reloading[r].pc = "close"
        /\ cols' = CloseCollectors(cols, {reloading[r].existing})
        /\ reloading' = [reloading EXCEPT ![r].pc = "start"]
        /\ UNCHANGED <<outsideMain, reloadVars, engineLoops, sweepTasks,
                       shutdown>>

\* startCollector(deviceName, ...), under collectorsMu.
ReloadStart ==
    \E r \in Requests :
        LET d == Head(reloading[r].todo)
            rest == Tail(reloading[r].todo)
            after == startCollector(
                         [cols |-> cols, collectors |-> collectors], d)
        IN  /\ ProcessAlive
            /\ reloading[r].pc = "start"
            /\ cols' = after.cols
            /\ collectors' = after.collectors
            /\ reloading' = [reloading EXCEPT
                                ![r].todo = rest,
                                ![r].pc = IF rest = <<>> THEN "return"
                                          ELSE "lookup"]
            /\ UNCHANGED <<outsideMain, configDir, apiConfig, reloads,
                           lastReload, engineLoops, sweepTasks, shutdown>>

\* return newCfg, nil: handleReload stores the configuration.
ReloadReturn ==
    \E r \in Requests :
        /\ ProcessAlive
        /\ reloading[r].pc = "return"
        /\ apiConfig' = reloading[r].newCfg
        /\ lastReload' = "ok"
        /\ reloading' = [reloading EXCEPT ![r].pc = "done"]
        /\ UNCHANGED <<outsideMain, cols, collectors, configDir, reloads,
                       engineLoops, sweepTasks, shutdown>>

\* <-sigChan.
ShutdownSignal ==
    /\ shutdown.pc = "wait"
    /\ shutdown' = [pc |-> "closing", visited |-> {}]
    /\ UNCHANGED <<outsideMain, supVars, engineLoops, sweepTasks, reloading>>

\* One turn of the loop of main over the collectors map: col.Close().  The
\* loop takes no lock and sees the entry the map holds when it gets there.
ShutdownClose ==
    \E d \in DOMAIN collectors \ shutdown.visited :
        /\ shutdown.pc = "closing"
        /\ cols' = CloseCollectors(cols, {collectors[d]})
        /\ shutdown' = [shutdown EXCEPT !.visited = @ \cup {d}]
        /\ UNCHANGED <<outsideMain, reloadVars, engineLoops, sweepTasks,
                       reloading>>

\* The loop is over.  While a request writes the map the unlocked range
\* is a data race: it may pass over the entries written meanwhile, or the
\* runtime ends the process.
ShutdownLoopEnd ==
    /\ shutdown.pc = "closing"
    /\ \/ /\ DOMAIN collectors \subseteq shutdown.visited
          /\ shutdown' = [shutdown EXCEPT !.pc = "cancel"]
       \/ /\ \E r \in Requests : InReload(r)
          /\ \E pc \in {"cancel", "exited"} :
                 shutdown' = [shutdown EXCEPT !.pc = pc]
    /\ UNCHANGED <<outsideMain, supVars, engineLoops, sweepTasks, reloading>>

\* cancel(), and main returns: the process ends.
ShutdownReturn ==
    /\ shutdown.pc = "cancel"
    /\ shutdown' = [shutdown EXCEPT !.pc = "exited"]
    /\ UNCHANGED <<outsideMain, supVars, engineLoops, sweepTasks, reloading>>

NextRequests ==
    \/ ReloadLoad
    \/ ReloadRemove
    \/ ReloadLookup
    \/ ReloadCloseExisting
    \/ ReloadStart
    \/ ReloadReturn
    \/ ShutdownSignal
    \/ ShutdownClose
    \/ ShutdownLoopEnd
    \/ ShutdownReturn

SpecRequests == InitCollector /\ [][NextRequests]_vars

(***************************************************************************)
(* C39: no collector is orphaned: after any sequence of startCollector     *)
(* calls and reloads, two reload requests running together and a reload    *)
(* running together with the shutdown included, every collector that was   *)
(* ever created is the current entry of the collectors map for its device  *)
(* or has been closed.                                                     *)
(***************************************************************************)
CurrentEntry(i) ==
    /\ cols[i].device \in DOMAIN collectors
    /\ collectors[cols[i].device] = i

Orphaned(i) == ~CurrentEntry(i) /\ ~cols[i].done

C39_NoCollectorOrphaned == \A i \in DOMAIN cols : ~Orphaned(i)

\* Two requests restarted the collector of the same device together: both
\* read the startup collector from the map, and the collector the first
\* one started was closed by the startCollector of the second.
C39_Witness ==
    /\ shutdown.pc = "wait"
    /\ Len(cols) = 3
    /\ \A i \in DOMAIN cols : cols[i].device = DeviceName
    /\ \A r \in Requests : reloading[r].existing = 1
    /\ cols[2].done
    /\ CurrentEntry(3)
    /\ ~cols[3].done

\* The shutdown ended while a request was between its lookup and its
\* startCollector.
ShutdownDuringReload ==
    /\ shutdown.pc = "exited"
    /\ \E r \in Requests : reloading[r].pc = "start"

(***************************************************************************)
(* C40: the dedup ledger entry of an identity is written only when a       *)
(* firing alert of that identity is delivered, never by an event that      *)
(* dedup dropped or flap detection suppressed; the window is measured from *)
(* the last delivered fire, and for a condition that keeps producing       *)
(* firing events the first event that arrives a full dedup window after    *)
(* the last delivered fire is delivered again.                             *)
(***************************************************************************)
LedgerKeys == DOMAIN lastFired \cup DOMAIN lastFired'

LedgerWritten(key) ==
    \/ key \in DOMAIN lastFired' \ DOMAIN lastFired
    \/ key \in DOMAIN lastFired \ DOMAIN lastFired'
    \/ /\ key \in DOMAIN lastFired \cap DOMAIN lastFired'
       /\ lastFired'[key] # lastFired[key]

\* The step processes a firing event of the identity and hands its alert
\* to the notifier.
FireDelivered(key) ==
    /\ events # <<>>
    /\ events' = Tail(events)
    /\ Head(events).Firing
    /\ key = AlertKey(Head(events).Device, Head(events).Entity,
                      Head(events).AlertType)
    /\ sink' = sink \o Notify(NewAlert(Head(events), now), now)

LedgerWrittenOnDelivery ==
    \A key \in LedgerKeys :
        LedgerWritten(key) =>
            /\ FireDelivered(key)
            /\ key \in DOMAIN lastFired'
            /\ lastFired'[key] = now

\* The step processes a firing event of a condition that has produced
\* nothing but firing events, a full dedup window or more after the last
\* delivered fire of its identity.
WindowOver(key) ==
    /\ events # <<>>
    /\ events' = Tail(events)
    /\ Head(events).Firing
    /\ key = AlertKey(Head(events).Device, Head(events).Entity,
                      Head(events).AlertType)
    /\ SteadyDeviation(Head(events).Entity)
    /\ key \in DOMAIN lastFired
    /\ now - lastFired[key] >= DedupWindow

DeliveredAgain ==
    \A key \in DOMAIN lastFired :
        WindowOver(key) =>
            /\ FireDelivered(key)
            /\ lastFired'[key] = now

C40_LedgerWrittenOnDelivery == [][LedgerWrittenOnDelivery]_vars

C40_DeliveredAgainAfterWindow == [][DeliveredAgain]_vars

C40_DedupLedger == [][LedgerWrittenOnDelivery /\ DeliveredAgain]_vars

=============================================================================
